---- MODULE Spec2Model ----
(***************************************************************************)
(* gremlins.js orchestration core: the callback sequencer                  *)
(* (utils/executeInSeries.ts), the service injector (utils/inject.ts), the *)
(* three scheduling strategies (strategies/allTogether.ts, which also      *)
(* holds distribution, and strategies/bySpecies.ts) and the horde          *)
(* controller (gremlinsHorde.ts).                                          *)
(*                                                                         *)
(* JavaScript runs every event to completion on one thread.  The model     *)
(* keeps the call stack explicit: `stack` holds the frames still to run    *)
(* (head = innermost), every step action runs the head frame, and the      *)
(* events of the environment (a timer firing, an asynchronous callback     *)
(* invoking its continuation, a call of unleash() or stop() from outside)  *)
(* are enabled only while the stack is empty.                              *)
(***************************************************************************)
EXTENDS Integers, Sequences, FiniteSets, TLC

VARIABLES
  hGremlins,     \* GremlinsHorde._gremlins
  hMogwais,      \* GremlinsHorde._mogwais
  hStrategies,   \* GremlinsHorde._strategies
  hBefore,       \* GremlinsHorde._beforeCallbacks
  hAfter,        \* GremlinsHorde._afterCallbacks
  hLogger,       \* GremlinsHorde._logger
  hRandomizer,   \* GremlinsHorde._randomizer
  slot,          \* per callback: the value behind its logger()/randomizer() accessor
  cfgNb,         \* per strategy instance: config.nb
  cfgDistribution, \* the distribution() instance's config.distribution
  stopped,       \* per strategy instance: the closure variable `stopped`
  doneCallback,  \* per strategy instance: the closure variable `doneCallback`
  invs,          \* closures of the strategy invocations made so far
  series,        \* closures of the executeInSeries calls made so far
  stack,         \* the JavaScript call stack, innermost frame first
  timers,        \* pending setTimeout callbacks, in creation order
  pending,       \* executeInSeries calls waiting for an asynchronous callback
  runParams,     \* params.nb of every unleash() call made so far (NoNb: no nb)
  runsLeft,      \* unleash() calls the test has still to make
  stopsLeft,     \* horde.stop() calls the page and the test have still to make
  callbacks,     \* the list a test passes to executeInSeries() directly
  onerror,       \* window.onerror and console.error as gizmo wraps them
  log            \* history of the observable events

vars == <<hGremlins, hMogwais, hStrategies, hBefore, hAfter, hLogger,
          hRandomizer, slot, cfgNb, stopped, doneCallback, invs, series,
          stack, timers, pending, runParams, runsLeft, stopsLeft, callbacks,
          onerror,
          cfgDistribution, log>>

regs == <<hGremlins, hMogwais, hStrategies, hBefore, hAfter>>
svcs == <<hLogger, hRandomizer, slot, callbacks, cfgDistribution, onerror>>

-----------------------------------------------------------------------------
(* Bounds of the model *)

MaxNb == 2        \* largest repetition count (config.nb and params.nb)
MaxRuns == 2      \* unleash() calls on the horde
MaxStops == 2     \* horde.stop() calls

-----------------------------------------------------------------------------
(* The callbacks of the model *)

\* strategy instances: one allTogether(), one bySpecies(), one distribution()
Strategies == {"AT", "BS", "DI"}

\* the catalog gremlins.species / gremlins.mogwais
CatalogSpecies == <<"clicker", "toucher", "formFiller", "scroller", "typer">>
CatalogMogwais == <<"alert", "fps", "gizmo">>

\* Function.length of a callback: a strategy declares (gremlins, params, done),
\* toucherGremlin declares (done); G2, B2 and A2 are callbacks written by the
\* caller with a trailing continuation parameter, N2 declares two parameters
\* it never calls, the others are written with none.
Arity(cb) ==
  CASE cb \in Strategies -> 3
    [] cb = "N2" -> 2
    [] cb \in {"toucher", "G2", "B2", "A2"} -> 1
    [] OTHER -> 0

\* the cleanUp function an owner exposes ("" when it exposes none)
CleanUpOf(o) ==
  CASE o = "alert" -> "cu_alert"
    [] o = "fps" -> "cu_fps"
    [] o = "gizmo" -> "cu_gizmo"
    [] o = "M1" -> "cu_M1"
    [] o = "G2" -> "cu_G2"
    [] OTHER -> ""

CleanUps == {"cu_alert", "cu_fps", "cu_gizmo", "cu_M1", "cu_G2"}

\* the callbacks that expose a logger() / randomizer() accessor
HasAccessor(cb, name) ==
  CASE name = "logger" ->
         cb \in {"clicker", "toucher", "formFiller", "scroller", "typer",
                 "alert", "fps", "gizmo"}
    [] name = "randomizer" ->
         cb \in {"clicker", "toucher", "formFiller", "scroller", "typer",
                 "alert", "DI"}
    [] OTHER -> FALSE

Injectables ==
  {"clicker", "toucher", "formFiller", "scroller", "typer", "alert", "fps",
   "gizmo", "DI"}

\* config.logger / config.randomizer a catalog callback is created with
\* ("" is null)
InitialSlot(cb) ==
  [logger |-> IF cb \in {"clicker", "toucher", "formFiller", "scroller",
                          "typer", "alert", "gizmo"}
              THEN "console" ELSE "",
   randomizer |-> IF cb = "DI" THEN "ownChance" ELSE ""]

-----------------------------------------------------------------------------
(* Records *)

Frame(op, n, m, g) == [op |-> op, n |-> n, m |-> m, g |-> g]
Cont(k, n, m, g) == [k |-> k, n |-> n, m |-> m, g |-> g]
Ev(e, cb, sid, inv, i) == [e |-> e, cb |-> cb, sid |-> sid, inv |-> inv, i |-> i]

NoCallback == [sid |-> 0, inv |-> 0]     \* doneCallback = null

Top == Head(stack)
Running(op) == stack # <<>> /\ Top.op = op
Replace(frames) == stack' = frames \o Tail(stack)
Pop == stack' = Tail(stack)

RECURSIVE SeqToSet(_)
SeqToSet(s) == IF s = <<>> THEN {} ELSE {Head(s)} \cup SeqToSet(Tail(s))

RECURSIVE RepeatSeq(_, _)
RepeatSeq(s, n) == IF n = 0 THEN <<>> ELSE s \o RepeatSeq(s, n - 1)

RECURSIVE CleanUpsOf(_)
CleanUpsOf(owners) ==
  IF owners = <<>> THEN <<>>
  ELSE IF CleanUpOf(Head(owners)) # ""
       THEN <<CleanUpOf(Head(owners))>> \o CleanUpsOf(Tail(owners))
       ELSE CleanUpsOf(Tail(owners))

-----------------------------------------------------------------------------
(* utils/inject.ts *)

\* { logger: this._logger, randomizer: this._randomizer }
Services == [logger |-> hLogger, randomizer |-> hRandomizer]

\* an inject() that calls the setter of every accessor, configured or not
NeedsInjectionAlways(s, cb, name) == HasAccessor(cb, name)

\* typeof objects[i][name] === "function" && !objects[i][name]():
\* the target exposes the accessor and its no-argument call returns a falsy
\* value (s: the values behind the accessors)
NeedsInjection(s, cb, name) == HasAccessor(cb, name) /\ s[cb][name] = ""

\* objects[i][name](services[name]) when the test above passes; acc holds
\* the values behind the accessors and the setter calls made so far
InjectOne(acc, cb, name, services) ==
  IF NeedsInjection(acc.slot, cb, name)
  THEN [slot |-> [acc.slot EXCEPT ![cb][name] = services[name]],
        calls |-> Append(acc.calls, [cb |-> cb, name |-> name])]
  ELSE acc

\* the loops of inject(services, objects): objects in order, and for each
\* the service names in the order of the services record
RECURSIVE InjectRun(_, _, _)
InjectRun(objects, services, acc) ==
  IF objects = <<>> THEN acc
  ELSE InjectRun(Tail(objects), services,
                 InjectOne(InjectOne(acc, Head(objects), "logger", services),
                           Head(objects), "randomizer", services))

\* an inject() that leaves every target as it is
InjectNothing(objects) == [slot |-> slot, calls |-> <<>>]

Inject(objects) ==
  InjectRun(objects, Services, [slot |-> slot, calls |-> <<>>])

-----------------------------------------------------------------------------
(* utils/executeInSeries.ts *)

\* a sequencer that takes every callback for a synchronous one
SynchronousAlways(cb, len) == TRUE

\* "Is the callback synchronous ?": callback.length === length
Synchronous(cb, len) == Arity(cb) = len

\* the closure of one executeInSeries(callbacks, args, context, done) call:
\* callbacksCopy, args.length before the continuation is pushed, done.
\* kind/run/inv/orig record where the call was made and the list it was given.
NewSeries(cbs, len, done, kind, run, inv) ==
  [cbs |-> cbs, len |-> len, done |-> done, kind |-> kind, run |-> run,
   inv |-> inv, orig |-> cbs]

NextSid == Len(series) + 1

\* args.push(() => iterator(callbacksCopy, args)), once, before the first
\* callback; callback.apply(context, subArgs) with subArgs = args: the
\* number of arguments every callback of the call is applied to
ArgsApplied(sid) == series[sid].len + 1

\* the array of its caller an executeInSeries call was given: the test's
\* list, horde._strategies, horde._afterCallbacks, the gremlins array the
\* all-together strategy received ("": an array built for the call)
CallerArray(s) ==
  CASE s.kind = "direct" -> "callbacks"
    [] s.kind = "attack" -> "hStrategies"
    [] s.kind = "teardown" -> "hAfter"
    [] s.kind = "wave" /\ invs[s.inv].s = "AT" -> "hGremlins"
    [] OTHER -> ""

\* a sequencer that iterates over the array it was given
CallbacksAlias(array) == array

\* const callbacksCopy = [...callbacks]: the array the iterator shifts is
\* a new one, none of the caller's
CallbacksCopy(array) == ""

\* array.shift() when `array` is the one named `shifted`
ShiftedBy(name, array, shifted) ==
  IF shifted = name /\ array # <<>> THEN Tail(array) ELSE array

\* a sequencer that catches the error of a callback and goes on
CaughtBySequencer(frames) == Tail(frames)

\* the frames left once an error was raised: no function of the library
\* catches, so every frame of the event is abandoned
Uncaught(frames) == <<>>

\* a sequencer that calls done only after it has run a callback
FinalContinuationUnlessEmpty(s) ==
  IF s.orig = <<>> THEN <<>>
  ELSE <<Frame(s.done.k, s.done.n, s.done.m, s.done.g)>>

\* return typeof done === "function" ? done() : true
\* (every done of the model is a function)
FinalContinuation(s) == <<Frame(s.done.k, s.done.n, s.done.m, s.done.g)>>

\* iterator(itCallbacks, subArgs)
\* an iterator that reads the first callback and leaves it in the list
NotShifted(cbs) == cbs

\* itCallbacks.shift()
Shifted(cbs) == Tail(cbs)

Iterator ==
  /\ Running("iterator")
  /\ LET sid == Top.n
         s == series[sid]
     IN IF s.cbs = <<>>
        THEN \* return done()
             /\ Replace(FinalContinuation(s))
             /\ UNCHANGED <<series, log, callbacks, hGremlins, hStrategies,
                            hAfter>>
        ELSE \* callback = itCallbacks.shift()
             /\ series' = [series EXCEPT ![sid].cbs = Shifted(s.cbs)]
             /\ LET shifted == CallbacksCopy(CallerArray(s))
                IN /\ callbacks' = ShiftedBy("callbacks", callbacks, shifted)
                   /\ hGremlins' = ShiftedBy("hGremlins", hGremlins, shifted)
                   /\ hStrategies' =
                        ShiftedBy("hStrategies", hStrategies, shifted)
                   /\ hAfter' = ShiftedBy("hAfter", hAfter, shifted)
             /\ IF Head(s.cbs) = ""
                THEN \* if (!callback) throw new Error("Callback not found")
                     /\ stack' = Uncaught(stack)
                     /\ log' = Append(log, Ev("throw", "", sid, s.inv, 0))
                ELSE \* callback.apply(context, subArgs)
                     /\ Replace(<<Frame("call", sid, 0, Head(s.cbs)),
                                  Frame("iterAfter", sid, 0, Head(s.cbs))>>)
                     /\ UNCHANGED log
  /\ UNCHANGED <<onerror, hMogwais, hBefore, hLogger, hRandomizer, slot,
                 cfgDistribution, cfgNb, stopped, doneCallback, invs, timers,
                 pending, runParams, runsLeft, stopsLeft>>

\* the rest of iterator once callback.apply() has returned
IterAfter ==
  /\ Running("iterAfter")
  /\ IF Synchronous(Top.g, series[Top.n].len)
     THEN Replace(<<Frame("iterator", Top.n, 0, "")>>)
     ELSE Pop
  /\ UNCHANGED <<regs, svcs, cfgNb, stopped, doneCallback, invs, series,
                 timers, pending, runParams, runsLeft, stopsLeft, log>>

-----------------------------------------------------------------------------
(* strategy.stop and GremlinsHorde.stop *)

Timer(k, n, m, g) == [k |-> k, n |-> n, m |-> m, g |-> g]

RECURSIVE StopTimers(_)
StopTimers(ss) ==
  IF ss = <<>> THEN <<>>
  ELSE <<Timer("callDone", 0, 0, Head(ss))>> \o StopTimers(Tail(ss))

RECURSIVE StopEvents(_)
StopEvents(ss) ==
  IF ss = <<>> THEN <<>>
  ELSE <<Ev("stop", Head(ss), 0, 0, 0)>> \o StopEvents(Tail(ss))

\* strategy.stop(): stopped = true; setTimeout(callDone, 4)
StoppedAfterStop(ss) ==
  [s \in Strategies |-> IF s \in SeqToSet(ss) THEN TRUE ELSE stopped[s]]

\* GremlinsHorde.stop(): every registered strategy's stop(), in order
HordeStop ==
  /\ stopped' = StoppedAfterStop(hStrategies)
  /\ timers' = timers \o StopTimers(hStrategies)
  /\ stopsLeft' = stopsLeft - 1

-----------------------------------------------------------------------------
(* callbacks written by the caller, and the catalog's: opaque bodies *)

\* the callback is written with a trailing continuation parameter, which it
\* invokes once: before it returns (CallsBackAtOnce) or from a later event
\* the body calls its last declared parameter
ExpectsContinuation(cb) == Arity(cb) > 0 /\ cb # "N2"

\* S0 declares no parameter and calls arguments[arguments.length - 1]
UsesArguments == {"S0"}

CallsBackAtOnce(cb) == cb \in {"A2", "S0"}

\* the function the body calls is the continuation: the last declared
\* parameter is bound to it when the callback declares one parameter more
\* than the fixed arguments, the last argument always is
InvokesContinuation(cb, len) ==
  \/ ExpectsContinuation(cb) /\ Arity(cb) = len + 1
  \/ cb \in UsesArguments

\* callbacks written by the caller whose body raises an error
ThrowingCallbacks == {"GX", "BX", "MX", "AX"}

\* the service a catalog callback tests before it does anything
\* ("" when it tests none): if (!config.randomizer) throw ..., and
\* if (!config.logger) throw ...
RequiredService(cb) ==
  CASE cb \in {"clicker", "toucher", "formFiller", "scroller", "typer"} ->
         "randomizer"
    [] cb \in {"alert", "fps"} -> "logger"
    [] OTHER -> ""

\* a catalog callback that runs whatever its configuration
MissingServiceNever(cb) == FALSE

\* !config.randomizer / !config.logger at the top of a catalog callback
MissingService(cb) ==
  RequiredService(cb) # "" /\ slot[cb][RequiredService(cb)] = ""

Raises(cb) == cb \in ThrowingCallbacks \/ MissingService(cb)

\* the catalog gremlins that look for a target, at most maxNbTries times
TargetSeekers == {"clicker", "toucher", "formFiller"}

\* mogwais/gizmo.ts.  onerror.chain: the gizmoMogwai() calls whose handlers
\* an error of the page runs through (window.onerror and console.error are
\* wrapped together), outermost first; onerror.saved: the chain kept in
\* realOnError / realLoggerError; onerror.nbErrors: nbErrors of every
\* gizmoMogwai() call made so far
NoHandlers == [chain |-> <<>>, saved |-> <<>>, nbErrors |-> <<>>]

\* gizmoMogwai(): nbErrors = 0; realOnError = window.onerror;
\* window.onerror = function ... (and the same for console.error)
GizmoInstalled(h) ==
  [chain |-> <<Len(h.nbErrors) + 1>> \o h.chain,
   saved |-> h.chain,
   nbErrors |-> Append(h.nbErrors, 0)]

\* gizmoMogwai.cleanUp(): window.onerror = realOnError
GizmoCleanedUp(h) == [h EXCEPT !.chain = h.saved]

HandlersAfter(cb) ==
  CASE cb = "gizmo" -> GizmoInstalled(onerror)
    [] cb = "cu_gizmo" -> GizmoCleanedUp(onerror)
    [] OTHER -> onerror

\* A callback body: a synchronous callback returns, an asynchronous one
\* invokes the continuation it was given, before it returns or later.
CallUser ==
  /\ Running("call")
  /\ Top.g \notin Strategies
  /\ ~Raises(Top.g)
  /\ LET sid == Top.n
         cb == Top.g
         called == Ev("call", cb, sid, series[sid].inv, ArgsApplied(sid))
     IN \/ /\ ~InvokesContinuation(cb, series[sid].len)
           /\ Pop
           /\ log' = Append(log, called)
           /\ UNCHANGED pending
        \/ /\ InvokesContinuation(cb, series[sid].len)
           /\ ~CallsBackAtOnce(cb)
           /\ pending' = pending \cup {sid}
           /\ Pop
           /\ log' = Append(log, called)
        \/ /\ InvokesContinuation(cb, series[sid].len)
           /\ CallsBackAtOnce(cb)
           /\ Replace(<<Frame("iterator", sid, 0, "")>>)
           /\ log' = log \o <<called, Ev("fin", cb, sid, series[sid].inv, 0)>>
           /\ UNCHANGED pending
  /\ onerror' = HandlersAfter(Top.g)
  /\ UNCHANGED <<regs, hLogger, hRandomizer, slot, callbacks, cfgDistribution,
                 cfgNb, stopped, doneCallback, invs, series, timers,
                 runParams, runsLeft, stopsLeft>>

\* A callback body that raises: a callback of the caller that throws, or a
\* catalog callback whose required service is unset.  The error is raised
\* before the callback does anything else.
CallThrows ==
  /\ Running("call")
  /\ Top.g \notin Strategies
  /\ Raises(Top.g)
  /\ stack' = Uncaught(stack)
  /\ log' = log \o <<Ev("call", Top.g, Top.n, series[Top.n].inv,
                        ArgsApplied(Top.n)),
                     Ev("throw", Top.g, Top.n, series[Top.n].inv, 0)>>
  /\ UNCHANGED <<regs, svcs, cfgNb, stopped, doneCallback, invs, series,
                 timers, pending, runParams, runsLeft, stopsLeft>>

\* A catalog gremlin that finds no target within maxNbTries tries: clicker
\* and formFiller `return false`, toucher does `return` and never invokes
\* the continuation it was given.
CallNoTarget ==
  /\ Running("call")
  /\ Top.g \in TargetSeekers
  /\ ~Raises(Top.g)
  /\ Pop
  /\ log' = log \o <<Ev("call", Top.g, Top.n, series[Top.n].inv,
                        ArgsApplied(Top.n)),
                     Ev("notarget", Top.g, Top.n, series[Top.n].inv, 0)>>
  /\ UNCHANGED <<regs, svcs, cfgNb, stopped, doneCallback, invs, series,
                 timers, pending, runParams, runsLeft, stopsLeft>>

\* an asynchronous callback invokes the continuation it was given
AsyncComplete ==
  /\ stack = <<>>
  /\ \E sid \in pending :
       /\ pending' = pending \ {sid}
       /\ stack' = <<Frame("iterator", sid, 0, "")>>
       /\ log' = Append(log, Ev("fin", "", sid, series[sid].inv, 0))
  /\ UNCHANGED <<regs, svcs, cfgNb, stopped, doneCallback, invs, series,
                 timers, runParams, runsLeft, stopsLeft>>

\* horde.stop() called by the page or the test between two events
Stop ==
  /\ stack = <<>>
  /\ stopsLeft > 0
  /\ HordeStop
  /\ log' = log \o StopEvents(hStrategies)
  /\ UNCHANGED <<regs, svcs, cfgNb, doneCallback, invs, series, stack,
                 pending, runParams, runsLeft>>

-----------------------------------------------------------------------------
(* strategies: shared parts *)

\* params.nb of a params record that has no nb field (undefined)
NoNb == -1

\* const nb = params && params.nb ? params.nb : config.nb
\* (undefined and 0 are falsy)
ResolveNb(s, p) == IF p # NoNb /\ p # 0 THEN p ELSE cfgNb[s]

\* a loop that tests its count only after the first repetition
ExhaustedAfterFirst(i, nb) == i > 0 /\ i >= nb

\* if (i >= nb): the repetitions are all done
Exhausted(i, nb) == i >= nb

\* the closure of one strategy invocation
NewInv(s, nb, copy, sid) ==
  [s |-> s, nb |-> nb, copy |-> copy, sid |-> sid, run |-> series[sid].run]

NextInv == Len(invs) + 1

\* callDone(): if (typeof doneCallback === "function") doneCallback();
CallDone ==
  /\ Running("callDone")
  /\ LET s == Top.g
         dc == doneCallback[s]
     IN IF dc # NoCallback
        THEN /\ Replace(<<Frame("iterator", dc.sid, 0, ""),
                          Frame("callDoneRet", 0, 0, s)>>)
             /\ log' = Append(log, Ev("sdone", s, dc.sid, dc.inv, 0))
        ELSE /\ Replace(<<Frame("callDoneRet", 0, 0, s)>>)
             /\ UNCHANGED log
  /\ UNCHANGED <<regs, svcs, cfgNb, stopped, doneCallback, invs, series,
                 timers, pending, runParams, runsLeft, stopsLeft>>

\* callDone(), after doneCallback() has returned: doneCallback = null
CallDoneRet ==
  /\ Running("callDoneRet")
  /\ doneCallback' = [doneCallback EXCEPT ![Top.g] = NoCallback]
  /\ Pop
  /\ UNCHANGED <<regs, svcs, cfgNb, stopped, invs, series, timers, pending,
                 runParams, runsLeft, stopsLeft, log>>

-----------------------------------------------------------------------------
(* strategies/allTogether.ts: allTogether *)

\* allTogetherStrategy(gremlins, params, done)
CallAllTogether ==
  /\ Running("call")
  /\ Top.g = "AT"
  /\ LET sid == Top.n
         nb == ResolveNb("AT", runParams[series[sid].run])
     IN /\ stopped' = [stopped EXCEPT !["AT"] = FALSE]
        /\ doneCallback' = [doneCallback EXCEPT !["AT"] =
                              [sid |-> sid, inv |-> NextInv]]
        /\ invs' = Append(invs, NewInv("AT", nb, <<>>, sid))
        /\ Replace(<<Frame("executeNextWave", NextInv, 0, "")>>)
        /\ log' = Append(log, Ev("call", "AT", sid, NextInv,
                                 ArgsApplied(sid)))
  /\ UNCHANGED <<regs, svcs, cfgNb, series, timers, pending, runParams,
                 runsLeft, stopsLeft>>

\* an all-together strategy that clones the gremlins when it is started
WaveGremlinsAtStart(inv) == invs[inv].copy

\* executeAllGremlins: executeInSeries(gremlins, [], horde, callback), where
\* gremlins is the horde's own array, cloned by executeInSeries
WaveGremlins(inv) == hGremlins

\* executeNextWave(i); a wave is executeInSeries(gremlins, [], horde, ...)
\* on the horde's own gremlin array
ExecuteNextWave ==
  /\ Running("executeNextWave")
  /\ LET inv == Top.n
         i == Top.m
     IN IF stopped[invs[inv].s]
        THEN /\ Pop
             /\ UNCHANGED <<series, log>>
        ELSE IF Exhausted(i, invs[inv].nb)
        THEN /\ Replace(<<Frame("callDone", 0, 0, invs[inv].s)>>)
             /\ UNCHANGED <<series, log>>
        ELSE /\ series' = Append(series,
                            NewSeries(WaveGremlins(inv), 0,
                                      Cont("waveDone", inv, i, ""),
                                      "wave", invs[inv].run, inv))
             /\ Replace(<<Frame("iterator", NextSid, 0, "")>>)
             /\ log' = Append(log, Ev("wave", "", NextSid, inv, i))
  /\ UNCHANGED <<regs, svcs, cfgNb, stopped, doneCallback, invs, timers,
                 pending, runParams, runsLeft, stopsLeft>>

\* () => setTimeout(() => executeNextWave(++i), config.delay)
WaveDone ==
  /\ Running("waveDone")
  /\ timers' = Append(timers, Timer("wave", Top.n, Top.m + 1, ""))
  /\ Pop
  /\ UNCHANGED <<regs, svcs, cfgNb, stopped, doneCallback, invs, series,
                 pending, runParams, runsLeft, stopsLeft, log>>

-----------------------------------------------------------------------------
(* strategies/bySpecies.ts: bySpecies *)

\* bySpeciesStrategy(gremlins, params, done)
CallBySpecies ==
  /\ Running("call")
  /\ Top.g = "BS"
  /\ LET sid == Top.n
         nb == ResolveNb("BS", runParams[series[sid].run])
     IN /\ stopped' = [stopped EXCEPT !["BS"] = FALSE]
        /\ doneCallback' = [doneCallback EXCEPT !["BS"] =
                              [sid |-> sid, inv |-> NextInv]]
        /\ invs' = Append(invs, NewInv("BS", nb, hGremlins, sid))
        /\ Replace(<<Frame("executeNextGremlin", NextInv, 0, "")>>)
        /\ log' = Append(log, Ev("call", "BS", sid, NextInv,
                                 ArgsApplied(sid)))
  /\ UNCHANGED <<regs, svcs, cfgNb, series, timers, pending, runParams,
                 runsLeft, stopsLeft>>

\* a strategy that works on the gremlins array it was given
GremlinsAlias(array) == array

\* const gremlinsCopy = [...gremlins]: the array the strategy shifts is a
\* new one, not the horde's
GremlinsCopy(array) == ""

\* executeNextGremlin()
ExecuteNextGremlin ==
  /\ Running("executeNextGremlin")
  /\ LET inv == Top.n
     IN IF stopped[invs[inv].s]
        THEN /\ Pop
             /\ UNCHANGED <<invs, hGremlins>>
        ELSE IF invs[inv].copy = <<>>
        THEN /\ Replace(<<Frame("callDone", 0, 0, invs[inv].s)>>)
             /\ UNCHANGED <<invs, hGremlins>>
        ELSE \* executeNext(gremlinsCopy.shift(), 0, executeNextGremlin)
             /\ invs' = [invs EXCEPT ![inv].copy = Tail(invs[inv].copy)]
             /\ hGremlins' = ShiftedBy("hGremlins", hGremlins,
                                       GremlinsCopy("hGremlins"))
             /\ Replace(<<Frame("executeNext", inv, 0, Head(invs[inv].copy))>>)
  /\ UNCHANGED <<hMogwais, hStrategies, hBefore, hAfter, svcs, cfgNb, stopped,
                 doneCallback, series, timers, pending, runParams, runsLeft,
                 stopsLeft, log>>

\* bySpecies executeNext(gremlin, i, callback), callback = executeNextGremlin
ExecuteNext ==
  /\ Running("executeNext")
  /\ LET inv == Top.n
         i == Top.m
         g == Top.g
     IN IF g = "" \/ stopped[invs[inv].s]
        THEN /\ Pop
             /\ UNCHANGED <<series, log>>
        ELSE IF Exhausted(i, invs[inv].nb)
        THEN /\ Replace(<<Frame("executeNextGremlin", inv, 0, "")>>)
             /\ UNCHANGED <<series, log>>
        ELSE /\ series' = Append(series,
                            NewSeries(<<g>>, 0, Cont("stepDone", inv, i, g),
                                      "wave", invs[inv].run, inv))
             /\ Replace(<<Frame("iterator", NextSid, 0, "")>>)
             /\ log' = Append(log, Ev("wave", g, NextSid, inv, i))
  /\ UNCHANGED <<regs, svcs, cfgNb, stopped, doneCallback, invs, timers,
                 pending, runParams, runsLeft, stopsLeft>>

\* () => setTimeout(function() { executeNext(gremlin, ++i, callback) }, config.delay)
StepDone ==
  /\ Running("stepDone")
  /\ timers' = Append(timers, Timer("step", Top.n, Top.m + 1, Top.g))
  /\ Pop
  /\ UNCHANGED <<regs, svcs, cfgNb, stopped, doneCallback, invs, series,
                 pending, runParams, runsLeft, stopsLeft, log>>

-----------------------------------------------------------------------------
(* strategies/allTogether.ts: distribution *)

\* weights and draws are in units of 1/Scale (divisible by 1..5 gremlins)
Scale == 3 * 4 * 5
\* randomizer.floating({min: 0, max: 1}) returning 0.1, 0.6 or 0.9
Draws == {Scale \div 10, 6 * (Scale \div 10), 9 * (Scale \div 10)}

\* new Chance(seed): the draws are a fixed sequence, a function of the seed
Seeds == {"seed1", "seed2"}

SeededDraws(r) ==
  IF r = "seed1"
  THEN <<Scale \div 10, 6 * (Scale \div 10), 9 * (Scale \div 10)>>
  ELSE <<9 * (Scale \div 10), Scale \div 10, 6 * (Scale \div 10)>>

\* the values the i-th draw of a randomizer can return: one value for a
\* seeded randomizer, any value for new Chance()
DrawsFrom(r, i) ==
  IF r \in Seeds THEN {SeededDraws(r)[(i % Len(SeededDraws(r))) + 1]}
  ELSE Draws

\* getUniformDistribution(gremlins)
RECURSIVE Repeat(_, _)
Repeat(v, n) == IF n = 0 THEN <<>> ELSE <<v>> \o Repeat(v, n - 1)

GetUniformDistribution(gremlins) ==
  IF Len(gremlins) = 0 THEN <<>>
  ELSE Repeat(Scale \div Len(gremlins), Len(gremlins))

\* the loop of pickGremlin: chance += distribution[i]; if (random <= chance) ...
\* (distribution[i] of a list that is too short is undefined: chance becomes
\* NaN and no comparison succeeds any more)
RECURSIVE PickFrom(_, _, _, _)
PickFrom(gremlins, distribution, chance, random) ==
  IF gremlins = <<>> \/ distribution = <<>> THEN "noop"     \* () => undefined
  ELSE IF random <= chance + Head(distribution) THEN Head(gremlins)
  ELSE PickFrom(Tail(gremlins), Tail(distribution),
                chance + Head(distribution), random)

\* a pickGremlin that returns the first gremlin whatever the draw
PickFirstGremlin(gremlins, distribution, random) ==
  IF gremlins = <<>> THEN "noop" ELSE Head(gremlins)

\* a pickGremlin with no fallback: it returns undefined when no cumulative
\* weight reaches the draw
PickOrUndefined(gremlins, distribution, random) ==
  IF PickFrom(gremlins, distribution, 0, random) = "noop" THEN ""
  ELSE PickFrom(gremlins, distribution, 0, random)

\* pickGremlin(gremlins, distribution), random being the value drawn
PickGremlin(gremlins, distribution, random) ==
  PickFrom(gremlins, distribution, 0, random)

\* config.distribution.length === 0 ? getUniformDistribution(gremlinsCopy)
\*                                  : config.distribution
DistributionOf(gremlins) ==
  IF cfgDistribution = <<>> THEN GetUniformDistribution(gremlins)
  ELSE cfgDistribution

\* distributionStrategy(gremlins, params, done)
CallDistribution ==
  /\ Running("call")
  /\ Top.g = "DI"
  /\ LET sid == Top.n
         nb == ResolveNb("DI", runParams[series[sid].run])
     IN IF nb = 0
        THEN \* return done()
             /\ Replace(<<Frame("iterator", sid, 0, "")>>)
             /\ log' = log \o <<Ev("call", "DI", sid, 0, ArgsApplied(sid)),
                                Ev("sdone", "DI", sid, 0, 0)>>
             /\ UNCHANGED <<stopped, doneCallback, invs>>
        ELSE /\ stopped' = [stopped EXCEPT !["DI"] = FALSE]
             /\ doneCallback' = [doneCallback EXCEPT !["DI"] =
                                   [sid |-> sid, inv |-> NextInv]]
             /\ invs' = Append(invs, NewInv("DI", nb, hGremlins, sid))
             /\ \E random \in DrawsFrom(slot["DI"].randomizer, 0) :
                  Replace(<<Frame("distNext", NextInv, 0,
                                  PickGremlin(hGremlins,
                                              DistributionOf(hGremlins),
                                              random))>>)
             /\ log' = Append(log, Ev("call", "DI", sid, NextInv,
                                      ArgsApplied(sid)))
  /\ UNCHANGED <<regs, svcs, cfgNb, series, timers, pending, runParams,
                 runsLeft, stopsLeft>>

\* distribution executeNext(gremlin, i, callback)
DistNext ==
  /\ Running("distNext")
  /\ LET inv == Top.n
         i == Top.m
         g == Top.g
     IN IF stopped[invs[inv].s]
        THEN /\ Pop
             /\ UNCHANGED <<series, log>>
        ELSE IF Exhausted(i, invs[inv].nb)
        THEN /\ Replace(<<Frame("callDone", 0, 0, invs[inv].s)>>)
             /\ UNCHANGED <<series, log>>
        ELSE /\ series' = Append(series,
                            NewSeries(<<g>>, 0, Cont("distDone", inv, i, ""),
                                      "wave", invs[inv].run, inv))
             /\ Replace(<<Frame("iterator", NextSid, 0, "")>>)
             /\ log' = Append(log, Ev("wave", g, NextSid, inv, i))
  /\ UNCHANGED <<regs, svcs, cfgNb, stopped, doneCallback, invs, timers,
                 pending, runParams, runsLeft, stopsLeft>>

\* function() { setTimeout(function() { executeNext(pickGremlin(...), ++i, callback) }, config.delay) }
DistDone ==
  /\ Running("distDone")
  /\ timers' = Append(timers, Timer("dstep", Top.n, Top.m + 1, ""))
  /\ Pop
  /\ UNCHANGED <<regs, svcs, cfgNb, stopped, doneCallback, invs, series,
                 pending, runParams, runsLeft, stopsLeft, log>>

-----------------------------------------------------------------------------
(* gremlinsHorde.ts: GremlinsHorde *)

RunCount == Len(runParams)

DoneCount(run) ==
  Cardinality({j \in 1..Len(log) : log[j].e = "done" /\ log[j].i = run})

\* an unleash() that adds the catalog species to the gremlins it finds
GremlinsWithCatalog == hGremlins \o CatalogSpecies

\* the registries after the defaults of unleash() are applied
GremlinsAtUnleash == IF hGremlins = <<>> THEN CatalogSpecies ELSE hGremlins
MogwaisAtUnleash == IF hMogwais = <<>> THEN CatalogMogwais ELSE hMogwais
StrategiesAtUnleash == IF hStrategies = <<>> THEN <<"DI">> ELSE hStrategies

\* a setup phase that runs the mogwais first
SetupListMogwaisFirst(before, mogwais) == mogwais \o before

\* const beforeCallbacks = [...this._beforeCallbacks, ...this._mogwais]
SetupList(before, mogwais) == before \o mogwais

\* const afterCallbacks = this._afterCallbacks, and the loop that pushes the
\* cleanUp of every gremlin and mogwai onto it
AfterCallbacksAtUnleash(after, gremlinsAndMogwais) ==
  after \o CleanUpsOf(gremlinsAndMogwais)

\* unleash(params, done) called with params.nb = p, on top of the frames
\* `rest`; the history records the call and the setter calls of its inject()
UnleashOn(p, rest, before) ==
  LET gremlinsAndMogwais == GremlinsAtUnleash \o MogwaisAtUnleash
      allCallbacks == gremlinsAndMogwais \o StrategiesAtUnleash
                        \o hBefore \o hAfter
      run == RunCount + 1
      setters == Inject(allCallbacks).calls
  IN /\ hGremlins' = GremlinsAtUnleash
     /\ hMogwais' = MogwaisAtUnleash
     /\ hStrategies' = StrategiesAtUnleash
     /\ slot' = Inject(allCallbacks).slot
     /\ hAfter' = AfterCallbacksAtUnleash(hAfter, gremlinsAndMogwais)
     /\ runParams' = Append(runParams, p)
     /\ series' = Append(series,
                    NewSeries(SetupList(hBefore, MogwaisAtUnleash), 0,
                              Cont("startAttack", run, 0, ""), "setup", run, 0))
     /\ stack' = <<Frame("iterator", NextSid, 0, "")>> \o rest
     /\ log' = log \o before \o <<Ev("unleash", "", NextSid, 0, run)>>
                   \o [k \in 1..Len(setters) |->
                         Ev(setters[k].name, setters[k].cb, 0, 0, run)]
     /\ runsLeft' = runsLeft - 1
     /\ UNCHANGED <<hBefore, hLogger, hRandomizer, cfgNb, stopped,
                    doneCallback, invs, timers, pending, stopsLeft, callbacks,
                    cfgDistribution, onerror>>

\* the params.nb values the test passes
ParamNbs == {NoNb} \cup 0..(MaxNb - 1)

\* unleash() called by the test once the previous run has called done
Unleash ==
  /\ stack = <<>>
  /\ runsLeft > 0
  /\ RunCount > 0 => DoneCount(RunCount) > 0
  /\ \E p \in ParamNbs : UnleashOn(p, <<>>, <<>>)

\* an attack phase whose argument tuple already holds a third element
AttackArgsWithDone == <<"gremlins", "params", "done">>

\* [horde._gremlins, params]: the argument tuple of the attack phase
AttackArgs == <<"gremlins", "params">>

\* the final continuation of the setup phase:
\* executeInSeries(horde._strategies, [horde._gremlins, params], horde, ...)
StartAttack ==
  /\ Running("startAttack")
  /\ series' = Append(series,
                 NewSeries(hStrategies, Len(AttackArgs),
                           Cont("startTeardown", Top.n, 0, ""),
                           "attack", Top.n, 0))
  /\ Replace(<<Frame("iterator", NextSid, 0, "")>>)
  /\ UNCHANGED <<regs, svcs, cfgNb, stopped, doneCallback, invs, timers,
                 pending, runParams, runsLeft, stopsLeft, log>>

\* the final continuation of the attack phase:
\* executeInSeries(afterCallbacks, [], horde, ...), afterCallbacks being the
\* horde's own _afterCallbacks array
StartTeardown ==
  /\ Running("startTeardown")
  /\ series' = Append(series,
                 NewSeries(hAfter, 0, Cont("hordeDone", Top.n, 0, ""),
                           "teardown", Top.n, 0))
  /\ Replace(<<Frame("iterator", NextSid, 0, "")>>)
  /\ UNCHANGED <<regs, svcs, cfgNb, stopped, doneCallback, invs, timers,
                 pending, runParams, runsLeft, stopsLeft, log>>

\* the final continuation of the teardown phase: done().  The caller's done
\* returns, or unleashes the horde again before it returns.
HordeDone ==
  /\ Running("hordeDone")
  /\ \/ /\ Pop
        /\ log' = Append(log, Ev("done", "", 0, 0, Top.n))
        /\ UNCHANGED <<regs, svcs, cfgNb, stopped, doneCallback, invs,
                       series, timers, pending, runParams, runsLeft, stopsLeft>>
     \/ /\ runsLeft > 0
        /\ \E p \in ParamNbs :
             UnleashOn(p, Tail(stack), <<Ev("done", "", 0, 0, Top.n)>>)

-----------------------------------------------------------------------------
(* setTimeout *)

\* timers of one delay fire in the order they were set: callDone timers all
\* have delay 4, the step timers of a strategy all have its config.delay
TimerClass(t) == IF t.k = "callDone" THEN "callDone" ELSE invs[t.n].s

CanFire(k) ==
  \A j \in 1..(k - 1) : TimerClass(timers[j]) # TimerClass(timers[k])

RemoveAt(s, k) == SubSeq(s, 1, k - 1) \o SubSeq(s, k + 1, Len(s))

TimerFire ==
  /\ stack = <<>>
  /\ \E k \in 1..Len(timers) :
       /\ CanFire(k)
       /\ timers' = RemoveAt(timers, k)
       /\ LET t == timers[k]
          IN CASE t.k = "callDone" -> stack' = <<Frame("callDone", 0, 0, t.g)>>
               [] t.k = "wave" -> stack' = <<Frame("executeNextWave", t.n, t.m, "")>>
               [] t.k = "step" -> stack' = <<Frame("executeNext", t.n, t.m, t.g)>>
               [] t.k = "dstep" ->
                    \E random \in DrawsFrom(slot["DI"].randomizer, t.m) :
                      stack' = <<Frame("distNext", t.n, t.m,
                                       PickGremlin(invs[t.n].copy,
                                                   DistributionOf(invs[t.n].copy),
                                                   random))>>
  /\ UNCHANGED <<regs, svcs, cfgNb, stopped, doneCallback, invs, series,
                 pending, runParams, runsLeft, stopsLeft, log>>

-----------------------------------------------------------------------------
(* The horde the test builds before it unleashes it *)

Scenario(gremlins, strategies, before, nb, runs, stops) ==
  [gremlins |-> gremlins, strategies |-> strategies, before |-> before,
   nb |-> nb, runs |-> runs, stops |-> stops]

\* one strategy, run MaxRuns times; two strategies, run once less; one
\* strategy over a list with an asynchronous gremlin, run and stopped once
\* less; one strategy configured with nb(0)
Scenarios ==
  {Scenario(<<"G1", "G3">>, <<s>>, <<"B1">>, MaxNb, MaxRuns, MaxStops) :
     s \in Strategies}
  \cup {Scenario(<<"G1", "G3">>, <<"AT", "BS">>, <<"B1", "B2">>, MaxNb,
                 MaxRuns - 1, MaxStops)}
  \cup {Scenario(<<"G1", "G2">>, <<s>>, <<"B1", "B2">>, MaxNb,
                 MaxRuns - 1, MaxStops - 1) : s \in Strategies}
  \cup {Scenario(<<"G1", "G3">>, <<s>>, <<"B1">>, 0, MaxRuns, MaxStops - 1) :
          s \in Strategies}

InitWith(scenarios) ==
  /\ \E sc \in scenarios :
       /\ hGremlins = sc.gremlins
       /\ hStrategies = sc.strategies
       /\ hBefore = sc.before
       /\ cfgNb = [s \in Strategies |-> sc.nb]
       /\ runsLeft = sc.runs
       /\ stopsLeft = sc.stops
  /\ hMogwais = <<"M1">>
  /\ hAfter = <<"A1", "A2">>
  /\ hLogger = "console"
  /\ hRandomizer = "chance"
  /\ slot = [cb \in Injectables |-> InitialSlot(cb)]
  /\ stopped = [s \in Strategies |-> FALSE]
  /\ doneCallback = [s \in Strategies |-> NoCallback]
  /\ invs = <<>>
  /\ series = <<>>
  /\ stack = <<>>
  /\ timers = <<>>
  /\ pending = {}
  /\ runParams = <<>>
  /\ callbacks = <<>>
  /\ cfgDistribution = <<>>
  /\ log = <<>>
  /\ onerror = NoHandlers

Init == InitWith(Scenarios)

Next ==
  \/ Unleash
  \/ Stop
  \/ TimerFire
  \/ AsyncComplete
  \/ Iterator
  \/ IterAfter
  \/ CallUser
  \/ CallAllTogether
  \/ CallBySpecies
  \/ CallDistribution
  \/ ExecuteNextWave
  \/ ExecuteNextGremlin
  \/ ExecuteNext
  \/ DistNext
  \/ WaveDone
  \/ StepDone
  \/ DistDone
  \/ CallDone
  \/ CallDoneRet
  \/ StartAttack
  \/ StartTeardown
  \/ HordeDone

Spec == Init /\ [][Next]_vars

-----------------------------------------------------------------------------
(* The same horde under a fair scheduler *)

\* one strategy over a synchronous and an asynchronous gremlin
LiveScenarios ==
  {Scenario(<<"G1", "G2">>, <<s>>, <<"B1">>, MaxNb - 1, MaxRuns,
            MaxStops - 1) : s \in Strategies}

InitLive == InitWith(LiveScenarios)

\* the steps of the JavaScript engine inside one event
EngineStep ==
  \/ Iterator
  \/ IterAfter
  \/ CallUser
  \/ CallAllTogether
  \/ CallBySpecies
  \/ CallDistribution
  \/ ExecuteNextWave
  \/ ExecuteNextGremlin
  \/ ExecuteNext
  \/ DistNext
  \/ WaveDone
  \/ StepDone
  \/ DistDone
  \/ CallDone
  \/ CallDoneRet
  \/ StartAttack
  \/ StartTeardown
  \/ HordeDone

\* an event that began runs to its end, a timer that was set fires, and an
\* asynchronous callback invokes its continuation; the test and the page
\* call unleash() and stop() when they want, or never
Fairness ==
  /\ WF_vars(EngineStep)
  /\ WF_vars(TimerFire)
  /\ WF_vars(AsyncComplete)

SpecLive == InitLive /\ [][Next]_vars /\ Fairness

-----------------------------------------------------------------------------
(* A horde left to its defaults, in part or in whole, seeded or given a logger *)

\* seed(seed): this._randomizer = new Chance(seed); called before unleash
Seed ==
  /\ stack = <<>>
  /\ RunCount = 0
  /\ hRandomizer = "chance"
  /\ hRandomizer' \in Seeds
  /\ UNCHANGED <<onerror, regs, hLogger, slot, callbacks, cfgDistribution, cfgNb,
                 stopped, doneCallback, invs, series, stack, timers, pending,
                 runParams, runsLeft, stopsLeft, log>>

\* logger(L): this._logger = L; called before unleash
Logger ==
  /\ stack = <<>>
  /\ RunCount = 0
  /\ hLogger = "console"
  /\ hLogger' = "L"
  /\ UNCHANGED <<onerror, regs, hRandomizer, slot, callbacks, cfgDistribution, cfgNb,
                 stopped, doneCallback, invs, series, stack, timers, pending,
                 runParams, runsLeft, stopsLeft, log>>

\* each registry is left empty or given one entry by the caller
InitCatalog ==
  /\ hGremlins \in {<<>>, <<"G1">>}
  /\ hMogwais \in {<<>>, <<"M1">>}
  /\ hStrategies \in {<<>>, <<"AT">>, <<"BS">>}
  /\ hBefore \in {<<"B1">>, <<"B2", "B1">>}
  /\ hAfter = <<"A1">>
  /\ hLogger = "console"
  /\ hRandomizer = "chance"
  /\ slot = [cb \in Injectables |-> InitialSlot(cb)]
  /\ cfgNb = [s \in Strategies |-> MaxNb]
  /\ stopped = [s \in Strategies |-> FALSE]
  /\ doneCallback = [s \in Strategies |-> NoCallback]
  /\ invs = <<>>
  /\ series = <<>>
  /\ stack = <<>>
  /\ timers = <<>>
  /\ pending = {}
  /\ runParams = <<>>
  /\ runsLeft = MaxRuns - 1
  /\ stopsLeft = 0
  /\ callbacks = <<>>
  /\ cfgDistribution = <<>>
  /\ log = <<>>
  /\ onerror = NoHandlers

NextCatalog ==
  \/ Seed
  \/ Logger
  \/ Unleash
  \/ TimerFire
  \/ AsyncComplete
  \/ Iterator
  \/ IterAfter
  \/ CallUser
  \/ CallAllTogether
  \/ CallBySpecies
  \/ CallDistribution
  \/ ExecuteNextWave
  \/ ExecuteNextGremlin
  \/ ExecuteNext
  \/ DistNext
  \/ WaveDone
  \/ StepDone
  \/ DistDone
  \/ CallDone
  \/ CallDoneRet
  \/ StartAttack
  \/ StartTeardown
  \/ HordeDone

SpecCatalog == InitCatalog /\ [][NextCatalog]_vars

-----------------------------------------------------------------------------
(* A horde whose callbacks can fail: a callback of the caller throws, a     *)
(* catalog gremlin finds no target                                          *)

FaultScenario(gremlins, mogwais, strategies, before, after) ==
  [gremlins |-> gremlins, mogwais |-> mogwais, strategies |-> strategies,
   before |-> before, after |-> after]

\* a throwing gremlin under each strategy; a throwing before-callback,
\* mogwai or after-callback; two catalog gremlins under each strategy
FaultScenarios ==
  {FaultScenario(<<"G1", "GX">>, <<"M1">>, <<s>>, <<"B1">>, <<"A1">>) :
     s \in Strategies}
  \cup {FaultScenario(<<"G1">>, <<"M1">>, <<"AT">>, <<"BX">>, <<"A1">>),
        FaultScenario(<<"G1">>, <<"MX">>, <<"AT">>, <<"B1">>, <<"A1">>),
        FaultScenario(<<"G1">>, <<"M1">>, <<"AT">>, <<"B1">>, <<"AX">>)}
  \cup {FaultScenario(<<"clicker", "toucher">>, <<"M1">>, <<s>>, <<"B1">>,
                      <<"A1">>) : s \in Strategies}

InitFaults ==
  /\ \E sc \in FaultScenarios :
       /\ hGremlins = sc.gremlins
       /\ hMogwais = sc.mogwais
       /\ hStrategies = sc.strategies
       /\ hBefore = sc.before
       /\ hAfter = sc.after
  /\ hLogger = "console"
  /\ hRandomizer = "chance"
  /\ slot = [cb \in Injectables |-> InitialSlot(cb)]
  /\ cfgNb = [s \in Strategies |-> MaxNb]
  /\ stopped = [s \in Strategies |-> FALSE]
  /\ doneCallback = [s \in Strategies |-> NoCallback]
  /\ invs = <<>>
  /\ series = <<>>
  /\ stack = <<>>
  /\ timers = <<>>
  /\ pending = {}
  /\ runParams = <<>>
  /\ runsLeft = MaxRuns - 1
  /\ stopsLeft = MaxStops - 1
  /\ callbacks = <<>>
  /\ cfgDistribution = <<>>
  /\ log = <<>>
  /\ onerror = NoHandlers

NextFaults ==
  \/ Unleash
  \/ Stop
  \/ TimerFire
  \/ AsyncComplete
  \/ Iterator
  \/ IterAfter
  \/ CallUser
  \/ CallThrows
  \/ CallNoTarget
  \/ CallAllTogether
  \/ CallBySpecies
  \/ CallDistribution
  \/ ExecuteNextWave
  \/ ExecuteNextGremlin
  \/ ExecuteNext
  \/ DistNext
  \/ WaveDone
  \/ StepDone
  \/ DistDone
  \/ CallDone
  \/ CallDoneRet
  \/ StartAttack
  \/ StartTeardown
  \/ HordeDone

SpecFaults == InitFaults /\ [][NextFaults]_vars

-----------------------------------------------------------------------------
(* A horde whose services are set, read and seeded at any time *)

MaxSets == 3      \* calls of logger(), randomizer() and seed() in all

ServiceCalls == {"setLogger", "setRandomizer", "seed"}

SetCount == Cardinality({j \in 1..Len(log) : log[j].e \in ServiceCalls})

\* "" stands for a call without argument or with a falsy one
LoggerArgs == {"", "L", "L2"}
RandomizerArgs == {"", "R"}

\* an accessor that stores whatever it is given
SetAlways(current, v) == v

\* if (!v) return this._x; this._x = v
SetOrGet(current, v) == IF v = "" THEN current ELSE v

\* horde.logger(v)
SetLogger ==
  /\ stack = <<>>
  /\ SetCount < MaxSets
  /\ \E v \in LoggerArgs :
       /\ hLogger' = SetOrGet(hLogger, v)
       /\ log' = Append(log, Ev("setLogger", v, 0, 0, 0))
  /\ UNCHANGED <<onerror, regs, hRandomizer, slot, callbacks, cfgDistribution,
                 cfgNb, stopped, doneCallback, invs, series, stack, timers,
                 pending, runParams, runsLeft, stopsLeft>>

\* horde.randomizer(v)
SetRandomizer ==
  /\ stack = <<>>
  /\ SetCount < MaxSets
  /\ \E v \in RandomizerArgs :
       /\ hRandomizer' = SetOrGet(hRandomizer, v)
       /\ log' = Append(log, Ev("setRandomizer", v, 0, 0, 0))
  /\ UNCHANGED <<onerror, regs, hLogger, slot, callbacks, cfgDistribution,
                 cfgNb, stopped, doneCallback, invs, series, stack, timers,
                 pending, runParams, runsLeft, stopsLeft>>

\* horde.seed(seed): this._randomizer = new Chance(seed)
SeedAnyTime ==
  /\ stack = <<>>
  /\ SetCount < MaxSets
  /\ \E v \in Seeds :
       /\ hRandomizer' = v
       /\ log' = Append(log, Ev("seed", v, 0, 0, 0))
  /\ UNCHANGED <<onerror, regs, hLogger, slot, callbacks, cfgDistribution,
                 cfgNb, stopped, doneCallback, invs, series, stack, timers,
                 pending, runParams, runsLeft, stopsLeft>>

\* one gremlin, one mogwai and the all-together strategy, run for one wave
InitServices ==
  /\ hGremlins = <<"G1">>
  /\ hMogwais = <<"M1">>
  /\ hStrategies = <<"AT">>
  /\ hBefore = <<>>
  /\ hAfter = <<>>
  /\ hLogger = "console"
  /\ hRandomizer = "chance"
  /\ slot = [cb \in Injectables |-> InitialSlot(cb)]
  /\ cfgNb = [s \in Strategies |-> 1]
  /\ stopped = [s \in Strategies |-> FALSE]
  /\ doneCallback = [s \in Strategies |-> NoCallback]
  /\ invs = <<>>
  /\ series = <<>>
  /\ stack = <<>>
  /\ timers = <<>>
  /\ pending = {}
  /\ runParams = <<>>
  /\ runsLeft = 1
  /\ stopsLeft = 0
  /\ callbacks = <<>>
  /\ cfgDistribution = <<>>
  /\ log = <<>>
  /\ onerror = NoHandlers

NextServices ==
  \/ SetLogger
  \/ SetRandomizer
  \/ SeedAnyTime
  \/ Unleash
  \/ TimerFire
  \/ Iterator
  \/ IterAfter
  \/ CallUser
  \/ CallAllTogether
  \/ ExecuteNextWave
  \/ WaveDone
  \/ CallDone
  \/ CallDoneRet
  \/ StartAttack
  \/ StartTeardown
  \/ HordeDone

SpecServices == InitServices /\ [][NextServices]_vars

-----------------------------------------------------------------------------
(* A horde to which a gremlin is added while it runs *)

LateGremlin == "G3"

\* horde.gremlin(G3): this._gremlins.push(gremlin), called between two
\* events of the page, before or during a run
RegisterGremlin ==
  /\ stack = <<>>
  /\ LateGremlin \notin SeqToSet(hGremlins)
  /\ hGremlins' = Append(hGremlins, LateGremlin)
  /\ log' = Append(log, Ev("register", LateGremlin, 0, 0, 0))
  /\ UNCHANGED <<hMogwais, hStrategies, hBefore, hAfter, svcs, cfgNb, stopped,
                 doneCallback, invs, series, stack, timers, pending,
                 runParams, runsLeft, stopsLeft>>

\* a synchronous and an asynchronous gremlin under one strategy, run once
InitRegister ==
  /\ hGremlins = <<"G1", "G2">>
  /\ hMogwais = <<"M1">>
  /\ hStrategies \in {<<s>> : s \in Strategies}
  /\ hBefore = <<"B2">>
  /\ hAfter = <<>>
  /\ hLogger = "console"
  /\ hRandomizer = "chance"
  /\ slot = [cb \in Injectables |-> InitialSlot(cb)]
  /\ cfgNb = [s \in Strategies |-> MaxNb]
  /\ stopped = [s \in Strategies |-> FALSE]
  /\ doneCallback = [s \in Strategies |-> NoCallback]
  /\ invs = <<>>
  /\ series = <<>>
  /\ stack = <<>>
  /\ timers = <<>>
  /\ pending = {}
  /\ runParams = <<>>
  /\ runsLeft = 1
  /\ stopsLeft = 0
  /\ callbacks = <<>>
  /\ cfgDistribution = <<>>
  /\ log = <<>>
  /\ onerror = NoHandlers

NextRegister ==
  \/ RegisterGremlin
  \/ Unleash
  \/ TimerFire
  \/ AsyncComplete
  \/ Iterator
  \/ IterAfter
  \/ CallUser
  \/ CallAllTogether
  \/ CallBySpecies
  \/ CallDistribution
  \/ ExecuteNextWave
  \/ ExecuteNextGremlin
  \/ ExecuteNext
  \/ DistNext
  \/ WaveDone
  \/ StepDone
  \/ DistDone
  \/ CallDone
  \/ CallDoneRet
  \/ StartAttack
  \/ StartTeardown
  \/ HordeDone

SpecRegister == InitRegister /\ [][NextRegister]_vars

-----------------------------------------------------------------------------
(* A horde watched by the gizmo mogwai, on a page that raises errors *)

MaxErrors == 2       \* gizmo's config.maxErrors
MaxPageErrors == 3   \* errors the page raises

ErrorCount == Cardinality({j \in 1..Len(log) : log[j].e = "error"})

\* a gizmo that stops the horde one error later
ReachedMaxLate(n) == n > MaxErrors

\* if (nbErrors >= config.maxErrors)
ReachedMax(n) == n >= MaxErrors

\* The page raises an error (window.onerror) or calls console.error: every
\* handler of the chain does nbErrors++ and, at its threshold, horde.stop()
\* (the warning gizmo logs 4 ms later changes nothing of the horde)
PageError ==
  /\ stack = <<>>
  /\ ErrorCount < MaxPageErrors
  /\ LET counted ==
           [id \in 1..Len(onerror.nbErrors) |->
              IF id \in SeqToSet(onerror.chain)
              THEN onerror.nbErrors[id] + 1
              ELSE onerror.nbErrors[id]]
         stopping == SelectSeq(onerror.chain, LAMBDA id : ReachedMax(counted[id]))
         n == Len(stopping)
     IN /\ onerror' = [onerror EXCEPT !.nbErrors = counted]
        /\ stopped' = IF n > 0 THEN StoppedAfterStop(hStrategies) ELSE stopped
        /\ timers' = timers \o RepeatSeq(StopTimers(hStrategies), n)
        /\ log' = log \o <<Ev("error", "", 0, 0, 0)>>
                      \o RepeatSeq(<<Ev("hordeStop", "gizmo", 0, 0, 0)>>
                                     \o StopEvents(hStrategies), n)
  /\ UNCHANGED <<regs, hLogger, hRandomizer, slot, callbacks, cfgDistribution,
                 cfgNb, doneCallback, invs, series, stack, pending, runParams,
                 runsLeft, stopsLeft>>

\* one gremlin, the gizmo mogwai and the all-together strategy
InitGizmo ==
  /\ hGremlins = <<"G1">>
  /\ hMogwais = <<"gizmo">>
  /\ hStrategies = <<"AT">>
  /\ hBefore = <<>>
  /\ hAfter = <<>>
  /\ hLogger = "console"
  /\ hRandomizer = "chance"
  /\ slot = [cb \in Injectables |-> InitialSlot(cb)]
  /\ cfgNb = [s \in Strategies |-> MaxNb]
  /\ stopped = [s \in Strategies |-> FALSE]
  /\ doneCallback = [s \in Strategies |-> NoCallback]
  /\ invs = <<>>
  /\ series = <<>>
  /\ stack = <<>>
  /\ timers = <<>>
  /\ pending = {}
  /\ runParams = <<>>
  /\ runsLeft = MaxRuns
  /\ stopsLeft = 0
  /\ callbacks = <<>>
  /\ cfgDistribution = <<>>
  /\ log = <<>>
  /\ onerror = NoHandlers

NextGizmo ==
  \/ Unleash
  \/ PageError
  \/ TimerFire
  \/ Iterator
  \/ IterAfter
  \/ CallUser
  \/ CallAllTogether
  \/ ExecuteNextWave
  \/ WaveDone
  \/ CallDone
  \/ CallDoneRet
  \/ StartAttack
  \/ StartTeardown
  \/ HordeDone

SpecGizmo == InitGizmo /\ [][NextGizmo]_vars

-----------------------------------------------------------------------------
(* executeInSeries called directly, as the tests of the sequencer do *)

MaxLen == 3       \* longest callback list passed to executeInSeries

\* G1 is synchronous; G2 keeps its continuation and invokes it later; A2
\* invokes its continuation before it returns
SeriesCallbacks == {"G1", "G2", "A2"}

RECURSIVE ListsUpTo(_)
ListsUpTo(n) ==
  IF n = 0 THEN {<<>>}
  ELSE ListsUpTo(n - 1)
       \cup {Append(l, c) : l \in {x \in ListsUpTo(n - 1) : Len(x) = n - 1},
                            c \in SeriesCallbacks}

InitSeries ==
  /\ callbacks \in ListsUpTo(MaxLen)
  /\ hGremlins = <<>>
  /\ hMogwais = <<>>
  /\ hStrategies = <<>>
  /\ hBefore = <<>>
  /\ hAfter = <<>>
  /\ hLogger = "console"
  /\ hRandomizer = "chance"
  /\ slot = [cb \in Injectables |-> InitialSlot(cb)]
  /\ cfgNb = [s \in Strategies |-> MaxNb]
  /\ stopped = [s \in Strategies |-> FALSE]
  /\ doneCallback = [s \in Strategies |-> NoCallback]
  /\ invs = <<>>
  /\ series = <<>>
  /\ stack = <<>>
  /\ timers = <<>>
  /\ pending = {}
  /\ runParams = <<>>
  /\ runsLeft = 0
  /\ stopsLeft = 0
  /\ cfgDistribution = <<>>
  /\ log = <<>>
  /\ onerror = NoHandlers

\* executeInSeries(callbacks, [], null, done): callbacksCopy = [...callbacks],
\* the continuation is pushed onto args, iterator(callbacksCopy, args)
ExecuteInSeries ==
  /\ stack = <<>>
  /\ series = <<>>
  /\ series' = <<NewSeries(callbacks, 0, Cont("finalDone", 1, 0, ""),
                           "direct", 0, 0)>>
  /\ stack' = <<Frame("iterator", 1, 0, "")>>
  /\ UNCHANGED <<regs, svcs, cfgNb, stopped, doneCallback, invs, timers,
                 pending, runParams, runsLeft, stopsLeft, log>>

\* the done passed by the test
FinalDone ==
  /\ Running("finalDone")
  /\ log' = Append(log, Ev("final", "", Top.n, 0, 0))
  /\ Pop
  /\ UNCHANGED <<regs, svcs, cfgNb, stopped, doneCallback, invs, series,
                 timers, pending, runParams, runsLeft, stopsLeft>>

NextSeries ==
  \/ ExecuteInSeries
  \/ Iterator
  \/ IterAfter
  \/ CallUser
  \/ AsyncComplete
  \/ FinalDone

SpecSeries == InitSeries /\ [][NextSeries]_vars

-----------------------------------------------------------------------------
(* executeInSeries called directly with fixed arguments *)

MaxArgs == 2      \* most fixed arguments passed to executeInSeries
MaxAgain == 2     \* most extra invocations of a continuation

RECURSIVE ListsOver(_, _)
ListsOver(cbs, n) ==
  IF n = 0 THEN {<<>>}
  ELSE ListsOver(cbs, n - 1)
       \cup {Append(l, c) : l \in {x \in ListsOver(cbs, n - 1) : Len(x) = n - 1},
                            c \in cbs}

\* G1 and N2 never call anything, G2 calls its parameter later, A2 at once
ArgsCallbacks == {"G1", "G2", "A2", "N2"}

InitSeriesOver(cbs) ==
  /\ callbacks \in ListsOver(cbs, MaxLen)
  /\ hGremlins = <<>>
  /\ hMogwais = <<>>
  /\ hStrategies = <<>>
  /\ hBefore = <<>>
  /\ hAfter = <<>>
  /\ hLogger = "console"
  /\ hRandomizer = "chance"
  /\ slot = [cb \in Injectables |-> InitialSlot(cb)]
  /\ cfgNb = [s \in Strategies |-> MaxNb]
  /\ stopped = [s \in Strategies |-> FALSE]
  /\ doneCallback = [s \in Strategies |-> NoCallback]
  /\ invs = <<>>
  /\ series = <<>>
  /\ stack = <<>>
  /\ timers = <<>>
  /\ pending = {}
  /\ runParams = <<>>
  /\ runsLeft = 0
  /\ stopsLeft = 0
  /\ cfgDistribution = <<>>
  /\ log = <<>>
  /\ onerror = NoHandlers

InitSeriesArgs == InitSeriesOver(ArgsCallbacks)

\* executeInSeries(callbacks, args, null, done) with args.length = len
ExecuteInSeriesWith ==
  /\ stack = <<>>
  /\ series = <<>>
  /\ \E len \in 0..MaxArgs :
       series' = <<NewSeries(callbacks, len, Cont("finalDone", 1, 0, ""),
                             "direct", 0, 0)>>
  /\ stack' = <<Frame("iterator", 1, 0, "")>>
  /\ UNCHANGED <<regs, svcs, cfgNb, stopped, doneCallback, invs, timers,
                 pending, runParams, runsLeft, stopsLeft, log>>

NextSeriesArgs ==
  \/ ExecuteInSeriesWith
  \/ Iterator
  \/ IterAfter
  \/ CallUser
  \/ AsyncComplete
  \/ FinalDone

SpecSeriesArgs == InitSeriesArgs /\ [][NextSeriesArgs]_vars

-----------------------------------------------------------------------------
(* executeInSeries called directly, with callbacks that invoke the
   continuation when the sequencer does not expect it *)

\* S0 is synchronous by its declared parameters and invokes the continuation
RepeatCallbacks == {"G1", "G2", "A2", "S0"}

AgainCount == Cardinality({j \in 1..Len(log) : log[j].e = "again"})

\* a callback has invoked the continuation of the call
ContinuationInvoked(sid) ==
  \E j \in 1..Len(log) : log[j].e = "fin" /\ log[j].sid = sid

InitSeriesRepeat == InitSeriesOver(RepeatCallbacks)

\* A callback that has invoked the continuation invokes it once more: the
\* continuation is the one closure () => iterator(callbacksCopy, args)
ContinuationAgain ==
  /\ stack = <<>>
  /\ AgainCount < MaxAgain
  /\ \E sid \in 1..Len(series) :
       /\ ContinuationInvoked(sid)
       /\ stack' = <<Frame("iterator", sid, 0, "")>>
       /\ log' = Append(log, Ev("again", "", sid, series[sid].inv, 0))
  /\ UNCHANGED <<regs, svcs, cfgNb, stopped, doneCallback, invs, series,
                 timers, pending, runParams, runsLeft, stopsLeft>>

NextSeriesRepeat ==
  \/ ExecuteInSeriesWith
  \/ Iterator
  \/ IterAfter
  \/ CallUser
  \/ AsyncComplete
  \/ ContinuationAgain
  \/ FinalDone

SpecSeriesRepeat == InitSeriesRepeat /\ [][NextSeriesRepeat]_vars

-----------------------------------------------------------------------------
(* executeInSeries called directly on callbacks that can fail *)

\* G1 and G2 as above; GX throws; clicker and fps are catalog callbacks as
\* their factory returns them (randomizer null, logger null); gizmo tests
\* no service
FaultCallbacks == {"G1", "G2", "GX", "clicker", "fps"}

RECURSIVE FaultLists(_)
FaultLists(n) ==
  IF n = 0 THEN {<<>>}
  ELSE FaultLists(n - 1)
       \cup {Append(l, c) : l \in {x \in FaultLists(n - 1) : Len(x) = n - 1},
                            c \in FaultCallbacks}

\* the caller configured clicker and fps itself
Configured(s) ==
  [s EXCEPT !["clicker"]["randomizer"] = "own", !["fps"]["logger"] = "own"]

InitSeriesFaults ==
  /\ callbacks \in FaultLists(MaxLen)
  /\ slot \in {[cb \in Injectables |-> InitialSlot(cb)],
               Configured([cb \in Injectables |-> InitialSlot(cb)])}
  /\ hGremlins = <<>>
  /\ hMogwais = <<>>
  /\ hStrategies = <<>>
  /\ hBefore = <<>>
  /\ hAfter = <<>>
  /\ hLogger = "console"
  /\ hRandomizer = "chance"
  /\ cfgNb = [s \in Strategies |-> MaxNb]
  /\ stopped = [s \in Strategies |-> FALSE]
  /\ doneCallback = [s \in Strategies |-> NoCallback]
  /\ invs = <<>>
  /\ series = <<>>
  /\ stack = <<>>
  /\ timers = <<>>
  /\ pending = {}
  /\ runParams = <<>>
  /\ runsLeft = 0
  /\ stopsLeft = 0
  /\ cfgDistribution = <<>>
  /\ log = <<>>
  /\ onerror = NoHandlers

NextSeriesFaults ==
  \/ ExecuteInSeries
  \/ Iterator
  \/ IterAfter
  \/ CallUser
  \/ CallThrows
  \/ CallNoTarget
  \/ AsyncComplete
  \/ FinalDone

SpecSeriesFaults == InitSeriesFaults /\ [][NextSeriesFaults]_vars

-----------------------------------------------------------------------------
(* pickGremlin called directly on a gremlin list, weights and draws *)

MaxPicks == 3     \* draws made from one randomizer

PickNames == <<"G1", "G2", "G3", "G4", "G5">>

\* floating({min: 0, max: 1}) in tenths: 0, 0.1, ..., 1
PickDraws == {k * (Scale \div 10) : k \in 0..10}

RECURSIVE SumTo(_, _)
SumTo(w, k) == IF k = 0 THEN 0 ELSE w[k] + SumTo(w, k - 1)

\* custom config.distribution for n gremlins: quarters that sum to 1
CustomWeights(n) ==
  {w \in [1..n -> {Scale \div 4, Scale \div 2, 3 * (Scale \div 4)}] :
     SumTo(w, n) = Scale}

InitPick ==
  /\ \E n \in 1..MaxLen :
       /\ n <= Len(PickNames)
       /\ hGremlins = SubSeq(PickNames, 1, n)
       /\ cfgDistribution \in {<<>>} \cup CustomWeights(n)
  /\ hMogwais = <<>>
  /\ hStrategies = <<>>
  /\ hBefore = <<>>
  /\ hAfter = <<>>
  /\ hLogger = "console"
  /\ hRandomizer = "chance"
  /\ slot = [cb \in Injectables |-> InitialSlot(cb)]
  /\ cfgNb = [s \in Strategies |-> MaxNb]
  /\ stopped = [s \in Strategies |-> FALSE]
  /\ doneCallback = [s \in Strategies |-> NoCallback]
  /\ invs = <<>>
  /\ series = <<>>
  /\ stack = <<>>
  /\ timers = <<>>
  /\ pending = {}
  /\ runParams = <<>>
  /\ runsLeft = 0
  /\ stopsLeft = 0
  /\ callbacks = <<>>
  /\ log = <<>>
  /\ onerror = NoHandlers

\* pickGremlin(gremlins, distribution) with the distribution the strategy
\* computes for the list
Pick ==
  /\ Len(log) < MaxPicks
  /\ \E random \in PickDraws :
       log' = Append(log, Ev("pick",
                             PickGremlin(hGremlins, DistributionOf(hGremlins),
                                         random),
                             0, 0, random))
  /\ UNCHANGED <<regs, svcs, cfgNb, stopped, doneCallback, invs, series,
                 stack, timers, pending, runParams, runsLeft, stopsLeft>>

NextPick == Pick

SpecPick == InitPick /\ [][NextPick]_vars

-----------------------------------------------------------------------------
(* The distribution strategy configured with weights that do not sum to 1 *)

\* config.distribution for n gremlins: quarters whose sum is not 1
SkewedWeights(n) ==
  {w \in [1..n -> {Scale \div 4, Scale \div 2, 3 * (Scale \div 4)}] :
     SumTo(w, n) # Scale}

\* a horde of a synchronous and an asynchronous gremlin, run once by
\* distribution().distribution(w) and never stopped
InitWeights ==
  /\ hGremlins = <<"G1", "G2">>
  /\ cfgDistribution \in SkewedWeights(2)
  /\ hMogwais = <<"M1">>
  /\ hStrategies = <<"DI">>
  /\ hBefore = <<"B1">>
  /\ hAfter = <<"A1">>
  /\ hLogger = "console"
  /\ hRandomizer = "chance"
  /\ slot = [cb \in Injectables |-> InitialSlot(cb)]
  /\ cfgNb = [s \in Strategies |-> MaxNb]
  /\ stopped = [s \in Strategies |-> FALSE]
  /\ doneCallback = [s \in Strategies |-> NoCallback]
  /\ invs = <<>>
  /\ series = <<>>
  /\ stack = <<>>
  /\ timers = <<>>
  /\ pending = {}
  /\ runParams = <<>>
  /\ runsLeft = 1
  /\ stopsLeft = 0
  /\ callbacks = <<>>
  /\ log = <<>>
  /\ onerror = NoHandlers

NextWeights ==
  \/ Unleash
  \/ TimerFire
  \/ AsyncComplete
  \/ Iterator
  \/ IterAfter
  \/ CallUser
  \/ CallDistribution
  \/ DistNext
  \/ DistDone
  \/ CallDone
  \/ CallDoneRet
  \/ StartAttack
  \/ StartTeardown
  \/ HordeDone

SpecWeights == InitWeights /\ [][NextWeights]_vars

-----------------------------------------------------------------------------
(* inject called directly on a list of targets *)

MaxInjects == 2   \* inject() calls on the same targets

\* a catalog gremlin, two catalog mogwais, the distribution strategy and a
\* callback that exposes no accessor
InjectTargets == {"clicker", "fps", "gizmo", "DI", "G1"}

RECURSIVE TargetLists(_)
TargetLists(n) ==
  IF n = 0 THEN {<<>>}
  ELSE TargetLists(n - 1)
       \cup {Append(l, c) : l \in {x \in TargetLists(n - 1) : Len(x) = n - 1},
                            c \in InjectTargets}

\* the caller configured the randomizer of clicker itself
PreConfigured(s) == [s EXCEPT !["clicker"]["randomizer"] = "own"]

InitInject ==
  /\ callbacks \in TargetLists(MaxLen) \ {<<>>}
  /\ hLogger \in {"", "L"}
  /\ hRandomizer \in {"", "chance"}
  /\ slot \in {[cb \in Injectables |-> InitialSlot(cb)],
               PreConfigured([cb \in Injectables |-> InitialSlot(cb)])}
  /\ hGremlins = <<>>
  /\ hMogwais = <<>>
  /\ hStrategies = <<>>
  /\ hBefore = <<>>
  /\ hAfter = <<>>
  /\ cfgNb = [s \in Strategies |-> MaxNb]
  /\ stopped = [s \in Strategies |-> FALSE]
  /\ doneCallback = [s \in Strategies |-> NoCallback]
  /\ invs = <<>>
  /\ series = <<>>
  /\ stack = <<>>
  /\ timers = <<>>
  /\ pending = {}
  /\ runParams = <<>>
  /\ runsLeft = 0
  /\ stopsLeft = 0
  /\ cfgDistribution = <<>>
  /\ log = <<>>
  /\ onerror = NoHandlers

InjectCount == Cardinality({j \in 1..Len(log) : log[j].e = "inject"})

\* inject({ logger, randomizer }, callbacks); the history records the call
\* and the setter calls it made (service name, target, n-th call)
InjectCall ==
  /\ InjectCount < MaxInjects
  /\ LET r == Inject(callbacks)
         n == InjectCount + 1
     IN /\ slot' = r.slot
        /\ log' = log \o <<Ev("inject", "", 0, 0, n)>>
                      \o [k \in 1..Len(r.calls) |->
                            Ev(r.calls[k].name, r.calls[k].cb, 0, 0, n)]
  /\ UNCHANGED <<onerror, regs, hLogger, hRandomizer, callbacks, cfgDistribution,
                 cfgNb, stopped, doneCallback, invs, series, stack, timers,
                 pending, runParams, runsLeft, stopsLeft>>

NextInject == InjectCall

SpecInject == InitInject /\ [][NextInject]_vars

-----------------------------------------------------------------------------
(* Reading the history *)

Positions == 1..Len(log)

\* the executeInSeries call that runs a phase of a run (0: not made yet)
PhaseSid(kind, run) ==
  IF \E sid \in 1..Len(series) : series[sid].kind = kind /\ series[sid].run = run
  THEN CHOOSE sid \in 1..Len(series) :
         series[sid].kind = kind /\ series[sid].run = run
  ELSE 0

CallsBefore(sid, j) ==
  {k \in 1..(j - 1) : log[k].e = "call" /\ log[k].sid = sid}

FinsBefore(sid, j) ==
  {k \in 1..(j - 1) : log[k].e = "fin" /\ log[k].sid = sid}

AsyncIn(cbs) == {k \in 1..Len(cbs) : ExpectsContinuation(cbs[k])}

\* every callback of the list given to `sid` was invoked and has completed
\* before position j of the history
CompleteBefore(sid, j) ==
  /\ sid # 0
  /\ Cardinality(CallsBefore(sid, j)) = Len(series[sid].orig)
  /\ Cardinality(FinsBefore(sid, j)) =
       Cardinality(AsyncIn(series[sid].orig))

\* the completion of every strategy of the attack phase `sid` fired before j
CompletionsBefore(sid, j) ==
  /\ sid # 0
  /\ Cardinality({k \in 1..(j - 1) : log[k].e = "sdone" /\ log[k].sid = sid})
       = Len(series[sid].orig)

Quiescent == stack = <<>> /\ timers = <<>> /\ pending = {}

-----------------------------------------------------------------------------
(* Claims *)

\* the callbacks invoked by an executeInSeries call, in order
SeriesCalls(sid) ==
  LET calls == SelectSeq([j \in Positions |-> j],
                         LAMBDA j : log[j].e = "call" /\ log[j].sid = sid)
  IN [k \in 1..Len(calls) |-> log[calls[k]].cb]

FinalPositions == {j \in Positions : log[j].e = "final"}

Mixed(cbs) ==
  /\ \E k \in 1..Len(cbs) : ExpectsContinuation(cbs[k])
  /\ \E k \in 1..Len(cbs) : ~ExpectsContinuation(cbs[k])

\* C2: for a non-empty list of synchronous and asynchronous callbacks, each
\* asynchronous one invoking its continuation once, executeInSeries invokes
\* the callbacks in list order, each once, and invokes the final
\* continuation once, after the last callback has completed.
C2_SeriesInOrderFinalOnce ==
  (callbacks # <<>> /\ series # <<>>) =>
    /\ LET n == Len(SeriesCalls(1))
       IN n <= Len(callbacks) /\ SeriesCalls(1) = SubSeq(callbacks, 1, n)
    /\ Cardinality(FinalPositions) <= 1
    /\ \A j \in FinalPositions : CompleteBefore(1, j)
    /\ Quiescent =>
         SeriesCalls(1) = callbacks /\ Cardinality(FinalPositions) = 1

\* a mixed list has run to its end
C2_Witness ==
  /\ Len(callbacks) >= 2
  /\ Mixed(callbacks)
  /\ series # <<>>
  /\ Quiescent
  /\ SeriesCalls(1) = callbacks
  /\ Cardinality(FinalPositions) = 1

\* C1: in every run of unleash, every before-callback and mogwai has finished
\* before a strategy is invoked, every strategy's completion has fired before
\* an after-callback or cleanUp is invoked, done is invoked after the last
\* teardown callback and at most once, and once nothing is left to run (no
\* frame, no timer, no callback awaited) done has been invoked exactly once.
C1_PhasesInOrderDoneOnce ==
  /\ \A j \in Positions :
       /\ (log[j].e = "call" /\ series[log[j].sid].kind = "attack") =>
            CompleteBefore(PhaseSid("setup", series[log[j].sid].run), j)
       /\ (log[j].e = "call" /\ series[log[j].sid].kind = "teardown") =>
            CompletionsBefore(PhaseSid("attack", series[log[j].sid].run), j)
       /\ log[j].e = "done" =>
            CompleteBefore(PhaseSid("teardown", log[j].i), j)
  /\ \A run \in 1..RunCount :
       /\ DoneCount(run) <= 1
       /\ Quiescent => DoneCount(run) = 1


-----------------------------------------------------------------------------
(* Reading the history: strategy invocations *)

InvIds == 1..Len(invs)

\* position of the invocation of a strategy (0: none)
CallPos(inv) ==
  IF \E j \in Positions :
       log[j].e = "call" /\ log[j].cb \in Strategies /\ log[j].inv = inv
  THEN CHOOSE j \in Positions :
         log[j].e = "call" /\ log[j].cb \in Strategies /\ log[j].inv = inv
  ELSE 0

\* positions where the completion callback of an invocation was invoked
CompletionPositions(inv) ==
  {j \in Positions : log[j].e = "sdone" /\ log[j].inv = inv}

\* positions where a wave (all-together) or a step (by-species,
\* distribution) of an invocation began
WavePositions(inv) == {j \in Positions : log[j].e = "wave" /\ log[j].inv = inv}

\* stop() was called on the strategy of `inv` at position k, while `inv` was
\* running: after it was invoked and before its completion fired
StopDuring(inv, k) ==
  /\ log[k].e = "stop"
  /\ log[k].cb = invs[inv].s
  /\ CallPos(inv) < k
  /\ \A d \in CompletionPositions(inv) : k < d

\* C3: once stop() has been called during a run of a strategy, no wave or
\* step of that run begins any more.
C3_NoWaveAfterStop ==
  \A inv \in InvIds : \A j \in WavePositions(inv) :
    \A k \in 1..(j - 1) : ~StopDuring(inv, k)

\* C4: the completion callback of every strategy invocation is invoked at
\* most once, and exactly once when nothing is left to run.
C4_CompletionExactlyOnce ==
  \A inv \in InvIds :
    /\ Cardinality(CompletionPositions(inv)) <= 1
    /\ Quiescent => Cardinality(CompletionPositions(inv)) = 1


-----------------------------------------------------------------------------
(* Reading the history: gremlins, teardown, runs *)

IsGremlinCall(j) == log[j].e = "call" /\ series[log[j].sid].kind = "wave"

IsTeardownCall(j) == log[j].e = "call" /\ series[log[j].sid].kind = "teardown"

IsStrategyCall(j) == log[j].e = "call" /\ log[j].cb \in Strategies

RunOf(j) == series[log[j].sid].run

\* the teardown phase of a run has started, or its done was called, at k
TeardownOrDoneAt(run, k) ==
  \/ IsTeardownCall(k) /\ RunOf(k) = run
  \/ log[k].e = "done" /\ log[k].i = run

\* horde.stop() was called during the attack phase of a run
StopDuringAttack(run) ==
  \E k \in Positions :
    /\ log[k].e = "stop"
    /\ \E c \in 1..(k - 1) : IsStrategyCall(c) /\ RunOf(c) = run
    /\ \A d \in 1..(k - 1) : ~TeardownOrDoneAt(run, d)

\* C5: in a horde with two or more strategies, after horde.stop() during the
\* attack phase, no gremlin is invoked once the teardown phase of that run
\* has started or its done has been called.
C5_NoGremlinAfterAttack ==
  Len(hStrategies) >= 2 =>
    \A run \in 1..RunCount :
      StopDuringAttack(run) =>
        \A j \in Positions :
          (IsGremlinCall(j) /\ RunOf(j) = run) =>
            \A k \in 1..(j - 1) : ~TeardownOrDoneAt(run, k)

\* the callbacks invoked by the teardown phase of a run, in order
TeardownCalls(run) ==
  LET calls == SelectSeq([j \in Positions |-> j],
                         LAMBDA j : IsTeardownCall(j) /\ RunOf(j) = run)
  IN [k \in 1..Len(calls) |-> log[calls[k]].cb]

CleanUpCalls(run) == SelectSeq(TeardownCalls(run), LAMBDA cb : cb \in CleanUps)

Count(s, x) == Cardinality({k \in 1..Len(s) : s[k] = x})

\* C6: in every run, the cleanUp of each registered gremlin or mogwai is
\* invoked at most once, and no other cleanUp is invoked.
C6_CleanUpAtMostOncePerRun ==
  \A run \in 1..RunCount : \A c \in CleanUps :
    /\ Count(CleanUpCalls(run), c) <= 1
    /\ Count(CleanUpCalls(run), c) > 0 =>
         c \in SeqToSet(CleanUpsOf(hGremlins \o hMogwais))

\* C7: in the teardown phase of a run no after-callback is invoked after a
\* cleanUp, and when done is called the cleanUps invoked are those of the
\* gremlins and mogwais that expose one, once each, in registration order.
C7_AfterThenCleanUpsInOrder ==
  \A run \in 1..RunCount :
    /\ \A a, b \in 1..Len(TeardownCalls(run)) :
         (a < b /\ TeardownCalls(run)[a] \in CleanUps) =>
           TeardownCalls(run)[b] \in CleanUps
    /\ DoneCount(run) > 0 =>
         CleanUpCalls(run) = CleanUpsOf(hGremlins \o hMogwais)

\* no run is in progress at position k: every unleash before k was answered
\* by its done
IdleAt(k) ==
  Cardinality({j \in 1..(k - 1) : log[j].e = "unleash"}) =
  Cardinality({j \in 1..(k - 1) : log[j].e = "done"})

StopPositions == {k \in Positions : log[k].e = "stop"}

\* waves (all-together) or steps (by-species, distribution) of a full run
ExpectedWaves(inv) ==
  IF invs[inv].s = "BS" THEN invs[inv].nb * Len(hGremlins) ELSE invs[inv].nb

WavesBefore(inv, d) == {j \in WavePositions(inv) : j < d}

\* C8: when horde.stop() was only ever called while no run was in progress,
\* the completion of every strategy invocation fires only after its full
\* count of waves or steps.
C8_IdleStopHasNoEffect ==
  (StopPositions # {} /\ \A k \in StopPositions : IdleAt(k)) =>
    \A inv \in InvIds : \A d \in CompletionPositions(inv) :
      Cardinality(WavesBefore(inv, d)) = ExpectedWaves(inv)

\* inv2 is a later invocation of the strategy of inv1, made after the
\* completion of inv1 fired
InvokedAgain(inv1, inv2) ==
  /\ inv1 < inv2
  /\ invs[inv1].s = invs[inv2].s
  /\ \E d \in CompletionPositions(inv1) : d < CallPos(inv2)

\* C9: when a strategy is invoked again after an earlier invocation
\* completed, no wave or step of the earlier invocation begins after its
\* completion fired, and the new invocation, if stop() is not called after
\* it began, has dispatched exactly its own count of waves or steps when
\* nothing is left to run.
C9_ReinvocationIndependent ==
  \A inv1, inv2 \in InvIds :
    InvokedAgain(inv1, inv2) =>
      /\ \A d \in CompletionPositions(inv1) : \A j \in WavePositions(inv1) :
           j < d
      /\ (Quiescent /\ \A k \in StopPositions : k < CallPos(inv2)) =>
           Cardinality(WavePositions(inv2)) = ExpectedWaves(inv2)

\* the gremlins invoked by the waves of an invocation, in order
GremlinCalls(inv) ==
  LET calls == SelectSeq([j \in Positions |-> j],
                         LAMBDA j : IsGremlinCall(j) /\ log[j].inv = inv)
  IN [k \in 1..Len(calls) |-> log[calls[k]].cb]

IsPrefix(s, u) == Len(s) <= Len(u) /\ s = SubSeq(u, 1, Len(s))

\* C10: an all-together invocation that is never stopped invokes the
\* gremlins wave after wave in registration order, nb waves in all, and
\* then fires its completion: the completion fires after nb * k gremlin
\* invocations, and has fired once nothing is left to run.
C10_AllTogetherWaves ==
  StopPositions = {} =>
    \A inv \in InvIds :
      invs[inv].s = "AT" =>
        /\ IsPrefix(GremlinCalls(inv), RepeatSeq(hGremlins, invs[inv].nb))
        /\ \A d \in CompletionPositions(inv) :
             /\ Cardinality(WavesBefore(inv, d)) = invs[inv].nb
             /\ GremlinCalls(inv) = RepeatSeq(hGremlins, invs[inv].nb)
        /\ Quiescent => Cardinality(CompletionPositions(inv)) = 1

\* every element of a list repeated n times, in list order
RECURSIVE EachRepeated(_, _)
EachRepeated(s, n) ==
  IF s = <<>> THEN <<>> ELSE Repeat(Head(s), n) \o EachRepeated(Tail(s), n)

\* C11: a by-species invocation that is never stopped invokes the first
\* gremlin nb times, then the second nb times, and so on in registration
\* order, and then fires its completion: the completion fires after all
\* nb * k gremlin invocations, and has fired once nothing is left to run.
C11_BySpeciesOrder ==
  StopPositions = {} =>
    \A inv \in InvIds :
      invs[inv].s = "BS" =>
        /\ IsPrefix(GremlinCalls(inv), EachRepeated(hGremlins, invs[inv].nb))
        /\ \A d \in CompletionPositions(inv) :
             GremlinCalls(inv) = EachRepeated(hGremlins, invs[inv].nb)
        /\ Quiescent => Cardinality(CompletionPositions(inv)) = 1

\* the cumulative weight of the first k gremlins reaches the draw (the
\* default weights are 1/n each)
Reaches(k, random) ==
  IF cfgDistribution = <<>>
  THEN random * Len(hGremlins) <= k * Scale
  ELSE random <= SumTo(cfgDistribution, k)

\* the draws and the gremlins of the picks made so far
PickedDraws == [j \in Positions |-> log[j].i]
PickedGremlins == [j \in Positions |-> log[j].cb]

\* C12: every pick returns the first gremlin, in list order, whose
\* cumulative weight reaches the draw; two gremlins with the default uniform
\* weights and the draws 0.1, 0.6, 0.9 give the first, the second, the second.
C12_PickByCumulativeWeight ==
  /\ \A j \in Positions :
       log[j].e = "pick" =>
         \E k \in 1..Len(hGremlins) :
           /\ log[j].cb = hGremlins[k]
           /\ Reaches(k, log[j].i)
           /\ \A m \in 1..(k - 1) : ~Reaches(m, log[j].i)
  /\ ( /\ Len(hGremlins) = 2
       /\ cfgDistribution = <<>>
       /\ PickedDraws = <<Scale \div 10, 6 * (Scale \div 10), 9 * (Scale \div 10)>> )
     => PickedGremlins = <<hGremlins[1], hGremlins[2], hGremlins[2]>>

\* two gremlins, uniform weights, draws 0.1, 0.6, 0.9
C12_Witness ==
  /\ Len(hGremlins) = 2
  /\ cfgDistribution = <<>>
  /\ \A j \in Positions : log[j].e = "pick"
  /\ PickedDraws = <<Scale \div 10, 6 * (Scale \div 10), 9 * (Scale \div 10)>>
  /\ PickedGremlins = <<"G1", "G2", "G2">>

\* stop() was never called on the strategy while `inv` was running
NeverStopped(inv) == \A k \in Positions : ~StopDuring(inv, k)

\* the gremlins invoked by an invocation before position d of the history
GremlinCallsBefore(inv, d) ==
  {j \in 1..(d - 1) : IsGremlinCall(j) /\ log[j].inv = inv}

\* the gremlins invoked by the step that began at position w
CallsOfStep(w) == {j \in Positions : log[j].e = "call" /\ log[j].sid = log[w].sid}

\* C13: a distribution invocation that is not stopped invokes at most one
\* gremlin in each step, and when its completion fires every step begun has
\* invoked exactly one gremlin and exactly nb gremlins were invoked in all.
C13_DistributionNbGremlins ==
  \A inv \in InvIds :
    (invs[inv].s = "DI" /\ NeverStopped(inv)) =>
      /\ \A w \in WavePositions(inv) : Cardinality(CallsOfStep(w)) <= 1
      /\ \A d \in CompletionPositions(inv) :
           /\ \A w \in WavesBefore(inv, d) : Cardinality(CallsOfStep(w)) = 1
           /\ Cardinality(GremlinCallsBefore(inv, d)) = invs[inv].nb

\* C14: the repetition count of every strategy invocation is the nb field of
\* the params record when the record has one, whatever its value, and the
\* strategy's config.nb only when it has none.
C14_ParamsNbOverrides ==
  \A inv \in InvIds :
    LET p == runParams[invs[inv].run]
    IN invs[inv].nb = (IF p # NoNb THEN p ELSE cfgNb[invs[inv].s])

\* positions where the completion of the strategy invoked at j was invoked
CompletionsOf(j) ==
  {d \in Positions :
     log[d].e = "sdone" /\ log[d].sid = log[j].sid /\ log[d].cb = log[j].cb}

\* the strategy invoked at j computes a repetition count of zero
ZeroCount(j) ==
  IsStrategyCall(j) /\ ResolveNb(log[j].cb, runParams[RunOf(j)]) = 0

\* C15: a strategy whose repetition count resolves to zero invokes no
\* gremlin, and its completion is invoked at most once, exactly once when
\* nothing is left to run.
C15_ZeroCountCompletesAtOnce ==
  \A j \in Positions :
    ZeroCount(j) =>
      /\ \A k \in Positions :
           IsGremlinCall(k) => (log[k].inv = 0 \/ log[k].inv # log[j].inv)
      /\ Cardinality(CompletionsOf(j)) <= 1
      /\ Quiescent => Cardinality(CompletionsOf(j)) = 1

\* by-species, which has no test of nb = 0 of its own, was run twice with a
\* count of zero and nothing is left to run
C15_Witness ==
  /\ Quiescent
  /\ \E j \in Positions :
       /\ ZeroCount(j)
       /\ log[j].cb = "BS"
       /\ RunOf(j) = 2
       /\ Cardinality(CompletionsOf(j)) = 1
  /\ \A j \in Positions : IsStrategyCall(j) => ZeroCount(j)

ServiceNames == {"logger", "randomizer"}

\* positions where the setter `name` of a target was called
SetterCalls(cb, name) ==
  {j \in Positions : log[j].e = name /\ log[j].cb = cb}

\* the events an inject() call added to the history
NewEvents == SubSeq(log', Len(log) + 1, Len(log'))

SetterCalled(cb, name) ==
  \E k \in 1..Len(NewEvents) : NewEvents[k].e = name /\ NewEvents[k].cb = cb

\* C16: an inject() call calls the setter of a target only for an accessor
\* the target exposes and whose value was falsy, a truthy value behind an
\* accessor is kept and its setter is not called, and for a truthy service
\* the setter of a target is called at most once however often inject() runs.
C16_InjectOnlyWhenUnset ==
  [][ \A cb \in InjectTargets : \A name \in ServiceNames :
        /\ SetterCalled(cb, name) =>
             (HasAccessor(cb, name) /\ slot[cb][name] = "")
        /\ (cb \in Injectables /\ slot[cb][name] # "") =>
             (slot'[cb][name] = slot[cb][name] /\ ~SetterCalled(cb, name))
        /\ Services[name] # "" =>
             Cardinality({j \in 1..Len(log') :
                            log'[j].e = name /\ log'[j].cb = cb}) <= 1
    ]_vars

\* inject() ran twice on a list holding clicker and fps: the logger clicker
\* was created with and the randomizer the caller gave it were kept, and fps
\* received the logger, once
C16_Witness ==
  /\ InjectCount = 2
  /\ "clicker" \in SeqToSet(callbacks)
  /\ "fps" \in SeqToSet(callbacks)
  /\ hLogger = "L"
  /\ hRandomizer = "chance"
  /\ slot["clicker"] = [logger |-> "console", randomizer |-> "own"]
  /\ slot["fps"].logger = "L"
  /\ Cardinality(SetterCalls("fps", "logger")) = 1
  /\ SetterCalls("clicker", "logger") = {}
  /\ SetterCalls("clicker", "randomizer") = {}

\* position of the unleash() call that started a run
UnleashPos(run) ==
  CHOOSE j \in Positions : log[j].e = "unleash" /\ log[j].i = run

\* positions where the inject() of a run called a setter
SetterPositions(run) ==
  {j \in Positions : log[j].e \in ServiceNames /\ log[j].i = run}

\* positions where a callback of a run (of any phase) was invoked
RunCallPositions(run) ==
  {j \in Positions : log[j].e = "call" /\ RunOf(j) = run}

\* the callbacks of the five registries
Registered ==
  SeqToSet(hGremlins \o hMogwais \o hStrategies \o hBefore \o hAfter)

DistributionSteps ==
  {j \in Positions :
     log[j].e = "wave" /\ log[j].inv # 0 /\ invs[log[j].inv].s = "DI"}

\* C18: on a seeded horde run with the default distribution strategy, the
\* strategy draws from the horde's randomizer, so the gremlin of every step is
\* the one the draws of the seed select.
C18_SeededSelections ==
  (hRandomizer \in Seeds /\ hStrategies = <<"DI">>) =>
    /\ (\E j \in Positions : log[j].e = "call" /\ log[j].cb = "DI") =>
         slot["DI"].randomizer = hRandomizer
    /\ \A j \in DistributionSteps :
         \A random \in DrawsFrom(hRandomizer, log[j].i) :
           log[j].cb = PickGremlin(hGremlins, GetUniformDistribution(hGremlins),
                                   random)

\* the catalog gremlins and mogwais
Catalog == SeqToSet(CatalogSpecies \o CatalogMogwais)

\* C19: once a run of a horde given the logger L has invoked a callback,
\* every registered catalog gremlin and mogwai that exposes a logger accessor
\* (none of them was given a logger by the caller) logs through L.
C19_LoggerReachesCatalog ==
  (hLogger = "L" /\ RunCount > 0 /\ RunCallPositions(1) # {}) =>
    \A cb \in Registered \cap Catalog :
      HasAccessor(cb, "logger") => slot[cb].logger = "L"

C21_EmptyListFinalOnce ==
  (callbacks = <<>> /\ series # <<>>) =>
    /\ \A j \in Positions : log[j].e = "final"
    /\ Cardinality(FinalPositions) <= 1
    /\ stack = <<>> => Cardinality(FinalPositions) = 1
    /\ pending = {}
    /\ timers = <<>>

\* executeInSeries has returned from a call on the empty list
C21_Witness ==
  /\ callbacks = <<>>
  /\ series # <<>>
  /\ series[1].orig = <<>>
  /\ stack = <<>>
  /\ log = <<Ev("final", "", 1, 0, 0)>>

ThrowPositions == {j \in Positions : log[j].e = "throw"}

\* C22: once a callback of an executeInSeries call has raised, no callback
\* of the list is invoked any more and the final continuation is never
\* called: the error is the last event of the call.
C22_ThrowAbortsSeries ==
  \A j \in ThrowPositions :
    /\ \A k \in Positions :
         (k > j /\ log[k].sid = log[j].sid) => log[k].e \notin {"call", "final"}
    /\ \A k \in FinalPositions : log[k].sid # log[j].sid

\* the second of three callbacks threw and nothing is left to run
C22_Witness ==
  /\ Len(callbacks) = 3
  /\ callbacks[2] = "GX"
  /\ callbacks[1] # "GX"
  /\ Quiescent
  /\ series # <<>>
  /\ ThrowPositions # {}
  /\ SeriesCalls(1) = SubSeq(callbacks, 1, 2)
  /\ FinalPositions = {}

\* C23: once a gremlin, mogwai, before- or after-callback of a run has
\* raised, the done callback of that run is not invoked any more, whatever
\* follows.
C23_NoDoneAfterThrow ==
  \A j \in ThrowPositions : \A d \in Positions :
    (d > j /\ log[d].e = "done") => log[d].i # RunOf(j)

\* C24: under a fair scheduler (every callback completes, every timer
\* fires) every run started by unleash() eventually invokes its done.
C24_RunEventuallyDone ==
  \A run \in 1..MaxRuns : (RunCount >= run) ~> (DoneCount(run) > 0)

\* the strategy invocation `inv` went on after position j: it began another
\* wave or step, or its completion fired
ProceededAfter(inv, j) ==
  \E k \in Positions :
    k > j /\ log[k].inv = inv /\ log[k].e \in {"wave", "sdone"}

\* C25: a catalog gremlin that finds no target returns without raising, the
\* strategy that runs it goes on to its next step or wave, and the run
\* completes: once nothing is left to run its done has been invoked.
C25_NoTargetProceeds ==
  \A j \in Positions :
    log[j].e = "notarget" =>
      /\ \A k \in ThrowPositions : log[k].sid # log[j].sid
      /\ Quiescent =>
           /\ ProceededAfter(log[j].inv, j)
           /\ DoneCount(RunOf(j)) > 0

\* the registered gremlins a step invoked
GremlinsOfStep(w) == {c \in CallsOfStep(w) : log[c].cb \in SeqToSet(hGremlins)}

InvokedUnconfigured(j) ==
  /\ log[j].e = "call"
  /\ RequiredService(log[j].cb) # ""
  /\ slot[log[j].cb][RequiredService(log[j].cb)] = ""

\* C27: a catalog gremlin or mogwai invoked while the service it requires is
\* unset raises at that invocation and does nothing else, the sequence that
\* invoked it never completes, and nothing is raised before a callback is
\* invoked.
C27_MissingServiceRaises ==
  /\ \A j \in Positions :
       InvokedUnconfigured(j) =>
         /\ j < Len(log)
         /\ log[j + 1].e = "throw"
         /\ log[j + 1].cb = log[j].cb
         /\ \A k \in Positions : k > j + 1 => log[k].sid # log[j].sid
  /\ \A k \in ThrowPositions :
       k > 1 /\ log[k - 1].e = "call" /\ log[k - 1].cb = log[k].cb

\* clicker, as its factory returns it, was invoked second in a list of
\* three and raised; fps, unconfigured too, was never invoked
C27_Witness ==
  /\ callbacks = <<"G1", "clicker", "fps">>
  /\ slot["clicker"].randomizer = ""
  /\ Quiescent
  /\ SeriesCalls(1) = <<"G1", "clicker">>
  /\ log[Len(log)] = Ev("throw", "clicker", 1, 0, 0)
  /\ FinalPositions = {}

\* C28: no step of an executeInSeries call changes the list the call was
\* given: it holds the same callbacks in the same order before, during and
\* after the call, so it can be passed to a later call.
C28_ListUnchanged ==
  [][callbacks' = callbacks]_vars

\* executeInSeries ran a list of three callbacks to its end: the closure's
\* copy is used up, the list is whole
C28_Witness ==
  /\ Len(callbacks) = MaxLen
  /\ series # <<>>
  /\ series[1].cbs = <<>>
  /\ series[1].orig = callbacks
  /\ Quiescent
  /\ Cardinality(FinalPositions) = 1

\* C29: no step of a strategy run, stopped or not, changes the gremlin list
\* the strategy was given: once the horde is unleashed, the list keeps its
\* elements and their order.
C29_GremlinListUnchanged ==
  [][RunCount > 0 => hGremlins' = hGremlins]_vars

\* a by-species run that used up its own copy and a run that was stopped
\* have both completed, and the horde's list is whole
C29_Witness ==
  /\ Quiescent
  /\ Len(hGremlins) = 2
  /\ \E inv \in InvIds :
       /\ invs[inv].s = "BS"
       /\ invs[inv].copy = <<>>
       /\ CompletionPositions(inv) # {}
  /\ \E inv \in InvIds : \E k \in Positions : StopDuring(inv, k)

\* the continuation of the callback invoked at c was invoked between c and d
CompletedBetween(c, d) ==
  \E f \in Positions :
    c < f /\ f < d /\ log[f].e = "fin" /\ log[f].sid = log[c].sid

\* at position k the asynchronous gremlin invoked at c by `inv` is still
\* awaiting its continuation
AwaitedAt(inv, c, k) ==
  /\ c < k
  /\ IsGremlinCall(c)
  /\ log[c].inv = inv
  /\ ExpectsContinuation(log[c].cb)
  /\ ~CompletedBetween(c, k)

\* C30: when stop() is called during a strategy run while a gremlin of the
\* current step is awaiting its continuation, the completion of the run
\* fires only after that gremlin has completed.
C30_CompletionAfterDispatched ==
  \A inv \in InvIds : \A k \in Positions :
    StopDuring(inv, k) =>
      \A c \in Positions :
        AwaitedAt(inv, c, k) =>
          \A d \in CompletionPositions(inv) : CompletedBetween(c, d)

\* the asynchronous gremlin invoked at c has not completed before position j
PendingAt(c, j) ==
  /\ c < j
  /\ IsGremlinCall(c)
  /\ ExpectsContinuation(log[c].cb)
  /\ ~CompletedBetween(c, j)

\* C31: within one strategy run no gremlin is invoked while a gremlin the
\* run invoked earlier has not completed, and a wave or step begins only
\* after every gremlin of the earlier waves or steps of the run has
\* completed.
C31_OneGremlinAtATime ==
  \A inv \in InvIds :
    /\ \A j \in Positions :
         (IsGremlinCall(j) /\ log[j].inv = inv) =>
           \A c \in Positions : log[c].inv = inv => ~PendingAt(c, j)
    /\ \A w \in WavePositions(inv) : \A w0 \in WavePositions(inv) :
         w0 < w => CompleteBefore(log[w0].sid, w)

\* an all-together run made two waves over a synchronous and an
\* asynchronous gremlin
C31_Witness ==
  \E inv \in InvIds :
    /\ invs[inv].s = "AT"
    /\ hGremlins = <<"G1", "G2">>
    /\ Cardinality(WavePositions(inv)) = 2
    /\ GremlinCalls(inv) = <<"G1", "G2", "G1", "G2">>
    /\ CompletionPositions(inv) # {}

\* the asynchronous callback invoked at j has not invoked its continuation
Awaited(j) ==
  /\ log[j].e = "call"
  /\ ExpectsContinuation(log[j].cb)
  /\ ~CompletedBetween(j, Len(log) + 1)

\* C32: while an asynchronous callback of an executeInSeries call has not
\* invoked its continuation, no later callback and no final continuation of
\* the call is invoked, and once the call has returned nothing of it runs
\* until the continuation is invoked: if it never is, the sequence stalls.
C32_WaitsForContinuation ==
  \A j \in Positions :
    Awaited(j) =>
      /\ \A k \in Positions :
           (k > j /\ log[k].sid = log[j].sid) => log[k].e \notin {"call", "final"}
      /\ stack = <<>> =>
           ~ENABLED (Iterator \/ IterAfter \/ CallUser \/ FinalDone
                       \/ ExecuteInSeries)

\* executeInSeries has returned while the first of two callbacks is awaited
C32_Witness ==
  /\ callbacks = <<"G2", "G1">>
  /\ stack = <<>>
  /\ pending = {1}
  /\ SeriesCalls(1) = <<"G2">>
  /\ FinalPositions = {}

\* the attack phase of a run has invoked a strategy
AttackBegun(run) ==
  \E j \in Positions : IsStrategyCall(j) /\ RunOf(j) = run

\* C33: the setup phase of a run invokes the before-callbacks in
\* registration order, then the mogwais in registration order, each once:
\* its invocations are a prefix of that list, and the whole list once the
\* attack phase has begun.
C33_SetupBeforeThenMogwais ==
  \A run \in 1..RunCount :
    LET sid == PhaseSid("setup", run)
    IN sid # 0 =>
         /\ IsPrefix(SeriesCalls(sid), hBefore \o hMogwais)
         /\ AttackBegun(run) => SeriesCalls(sid) = hBefore \o hMogwais

\* two before-callbacks, the first asynchronous, and the three catalog
\* mogwais were invoked before the strategy
C33_Witness ==
  /\ RunCount = 1
  /\ hBefore = <<"B2", "B1">>
  /\ hMogwais = <<"alert", "fps", "gizmo">>
  /\ AttackBegun(1)
  /\ SeriesCalls(PhaseSid("setup", 1)) = <<"B2", "B1", "alert", "fps", "gizmo">>

\* the completion of the strategy invoked at c fired before position j
CompletionBefore(c, j) == \E d \in CompletionsOf(c) : d < j

\* positions where the attack phase `sid` invoked a strategy
AttackCalls(sid) == {j \in Positions : IsStrategyCall(j) /\ log[j].sid = sid}

\* C34: the attack phase of a run invokes the strategies in registration
\* order, each after the completion of every strategy invoked before it has
\* fired, and every strategy works with the horde's gremlin list and the
\* params of the unleash() call of its run.
C34_StrategiesOneAtATime ==
  /\ \A run \in 1..RunCount :
       LET sid == PhaseSid("attack", run)
       IN sid # 0 =>
            /\ IsPrefix(SeriesCalls(sid), hStrategies)
            /\ \A c, j \in AttackCalls(sid) : c < j => CompletionBefore(c, j)
  /\ \A inv \in InvIds :
       /\ invs[inv].nb = ResolveNb(invs[inv].s, runParams[invs[inv].run])
       /\ \A w \in WavePositions(inv) :
            SeqToSet(series[log[w].sid].orig) \subseteq SeqToSet(hGremlins)

\* both strategies of a horde were invoked, all-together first, with the
\* params of the run
C34_Witness ==
  /\ hStrategies = <<"AT", "BS">>
  /\ RunCount = 1
  /\ runParams[1] = 1
  /\ SeriesCalls(PhaseSid("attack", 1)) = <<"AT", "BS">>
  /\ \A inv \in InvIds : invs[inv].nb = 1
  /\ Len(invs) = 2
  /\ DoneCount(1) = 1

\* C35: a callback that executeInSeries takes for synchronous is applied to
\* the fixed arguments of the caller and nothing more, and one it takes for
\* asynchronous to the fixed arguments followed by the continuation.
C35_ContinuationOnlyWhenAsync ==
  \A j \in Positions :
    log[j].e = "call" =>
      log[j].i = (IF Arity(log[j].cb) = series[log[j].sid].len
                  THEN series[log[j].sid].len
                  ELSE series[log[j].sid].len + 1)

ErrorPositions == {j \in Positions : log[j].e = "error"}

IsCallOf(j, cb) == log[j].e = "call" /\ log[j].cb = cb

\* position of the last invocation of gizmo before j (0: none)
GizmoStart(j) ==
  IF \E g \in 1..(j - 1) : IsCallOf(g, "gizmo")
  THEN CHOOSE g \in 1..(j - 1) :
         IsCallOf(g, "gizmo") /\ \A g2 \in (g + 1)..(j - 1) : ~IsCallOf(g2, "gizmo")
  ELSE 0

\* at j gizmo was invoked by the current run and not cleaned up since
Watching(j) ==
  /\ GizmoStart(j) # 0
  /\ \A k \in GizmoStart(j)..(j - 1) : ~IsCallOf(k, "cu_gizmo")

\* the errors raised since gizmo was invoked, the one at j included
CountedAt(j) ==
  Cardinality({k \in ErrorPositions : GizmoStart(j) < k /\ k <= j})

GizmoStopsAt(j) == j < Len(log) /\ log[j + 1].e = "hordeStop"

\* C36: gizmo calls horde.stop() on the error that brings the number of
\* errors raised since the current run invoked it to maxErrors, calls it
\* only on an error, and never while that number is below maxErrors.
C36_GizmoStopsAtMaxErrors ==
  /\ \A j \in ErrorPositions :
       /\ (Watching(j) /\ CountedAt(j) = MaxErrors) => GizmoStopsAt(j)
       /\ GizmoStopsAt(j) => (Watching(j) /\ CountedAt(j) >= MaxErrors)
  /\ \A k \in Positions :
       log[k].e = "hordeStop" => (k > 1 /\ log[k - 1].e = "error")

\* in its second run the horde was stopped by gizmo on the second error of
\* that run, an earlier error having been raised during the first run
C36_Witness ==
  /\ RunCount = 2
  /\ ErrorCount = 3
  /\ \E j \in ErrorPositions :
       /\ GizmoStopsAt(j)
       /\ CountedAt(j) = MaxErrors
       /\ \E k \in ErrorPositions : k < GizmoStart(j) /\ Watching(k)
  /\ Cardinality({j \in ErrorPositions : GizmoStopsAt(j)}) = 1

\* C37: within one executeInSeries call the callbacks invoked are, in order,
\* the first callbacks of the list it was given, each position invoked at
\* most once, however often a continuation is invoked.
C37_EachOnceInOrder ==
  \A sid \in 1..Len(series) : IsPrefix(SeriesCalls(sid), series[sid].orig)

\* a call whose synchronous first callback invoked the continuation and
\* whose asynchronous second callback invoked its continuation twice: the
\* three callbacks were invoked once each and the final continuation thrice
C37_Witness ==
  /\ callbacks = <<"S0", "G2", "G1">>
  /\ stack = <<>>
  /\ SeriesCalls(1) = callbacks
  /\ AgainCount >= 1
  /\ \E j \in Positions : log[j].e = "fin" /\ log[j].cb = "S0"
  /\ \E j \in Positions : log[j].e = "fin" /\ log[j].cb = ""
  /\ Cardinality(FinalPositions) >= 3

ContinuationBetween(sid, j, k) ==
  \E m \in (j + 1)..(k - 1) : log[m].sid = sid /\ log[m].e \in {"fin", "again"}

Proceeds(sid, k) == log[k].sid = sid /\ log[k].e \in {"call", "final"}

\* C38: after a callback whose declared parameter count differs from the
\* number of fixed arguments the call invokes nothing more until the
\* continuation is invoked, and after a callback whose count equals it the
\* call has gone on by the time it returns.
C38_SynchronousOnlyOnEqualCount ==
  \A j \in Positions :
    log[j].e = "call" =>
      LET sid == log[j].sid
          len == series[sid].len
      IN /\ Arity(log[j].cb) # len =>
              \A k \in Positions :
                (k > j /\ Proceeds(sid, k)) => ContinuationBetween(sid, j, k)
         /\ (Arity(log[j].cb) = len /\ stack = <<>>) =>
              \E k \in Positions : k > j /\ Proceeds(sid, k)

\* the call has returned and nothing is left to happen: its first callback,
\* which declares fewer parameters than there are fixed arguments, or more
\* than one more, never invoked the continuation
C38_Witness ==
  /\ series # <<>>
  /\ stack = <<>>
  /\ pending = {}
  /\ Len(callbacks) > 1
  /\ SeriesCalls(1) = <<Head(callbacks)>>
  /\ Head(callbacks) = "N2"
  /\ series[1].len = 0
  /\ FinalPositions = {}
  /\ ~ENABLED NextSeriesArgs

\* the last truthy value given to a service by the calls named in `calls`,
\* and `default` when there was none
LastGiven(calls, default) ==
  LET given == {j \in Positions : log[j].e \in calls /\ log[j].cb # ""}
  IN IF given = {} THEN default
     ELSE log[CHOOSE j \in given : \A k \in given : k <= j].cb

\* C39: the logger is the last truthy value given to logger(), the console
\* if there was none, and the randomizer is the last truthy value given to
\* randomizer() or made by seed(), the default generator if there was none:
\* a falsy argument changes nothing and neither service is ever unset.
C39_ServicesNeverUnset ==
  /\ hLogger = LastGiven({"setLogger"}, "console")
  /\ hRandomizer = LastGiven({"setRandomizer", "seed"}, "chance")
  /\ hLogger # ""
  /\ hRandomizer # ""

\* during a run logger() was called with a falsy argument after the logger
\* had been given a value, and randomizer() with a falsy argument
C39_Witness ==
  /\ RunCount = 1
  /\ DoneCount(1) = 0
  /\ SetCount = MaxSets
  /\ hLogger = "L"
  /\ \E j \in Positions :
       /\ log[j].e = "setLogger" /\ log[j].cb = "L"
       /\ \E k \in Positions :
            k > j /\ log[k].e = "setLogger" /\ log[k].cb = ""
  /\ \E k \in Positions : log[k].e = "setRandomizer" /\ log[k].cb = ""

RegisterPositions == {j \in Positions : log[j].e = "register"}

\* the horde's gremlin list as it was at position p: gremlins are only ever
\* appended to it
ListAt(p) ==
  SubSeq(hGremlins, 1,
         Len(hGremlins) - Cardinality({k \in RegisterPositions : k > p}))

\* C40: every wave of an all-together invocation runs on the gremlin list
\* as it is when the wave begins, and invokes all of it, a gremlin
\* registered since the previous wave began included; a by-species or a
\* distribution invocation invokes only gremlins of the list as it was when
\* the strategy was invoked, a by-species invocation every one of them.
C40_WavesRereadGremlins ==
  \A inv \in InvIds :
    IF invs[inv].s = "AT"
    THEN \A w \in WavePositions(inv) :
           /\ series[log[w].sid].orig = ListAt(w)
           /\ IsPrefix(SeriesCalls(log[w].sid), ListAt(w))
           /\ Quiescent => SeriesCalls(log[w].sid) = ListAt(w)
    ELSE /\ \A j \in Positions :
              (IsGremlinCall(j) /\ log[j].inv = inv) =>
                log[j].cb \in SeqToSet(ListAt(CallPos(inv)))
         /\ (invs[inv].s = "BS" /\ Quiescent) =>
              SeqToSet(GremlinCalls(inv)) = SeqToSet(ListAt(CallPos(inv)))

\* a gremlin was registered during the first wave of an all-together run,
\* while the asynchronous gremlin was awaited: the first wave invoked the
\* two gremlins it began with, the second wave all three
C40_Witness ==
  /\ hStrategies = <<"AT">>
  /\ Quiescent
  /\ \E w1, w2 \in WavePositions(1) :
       /\ w1 < w2
       /\ \E r \in RegisterPositions : w1 < r /\ r < w2
       /\ \A r \in RegisterPositions :
            \E c \in Positions :
              w1 < c /\ c < r /\ log[c].e = "call" /\ log[c].cb = "G2"
                /\ ~CompletedBetween(c, r)
       /\ SeriesCalls(log[w1].sid) = <<"G1", "G2">>
       /\ SeriesCalls(log[w2].sid) = <<"G1", "G2", "G3">>

====
